---- MODULE Spec2Model ----
(***************************************************************************)
(* A model of the Touch Portal / X-Plane UDP bridge (src/src/xplane.py,    *)
(* src/src/rpc.py, src/src/main.py).                                       *)
(*                                                                         *)
(* The XPlane object's fields are the variables.  Every method of the      *)
(* source is an operator that takes the object (a record `s` holding the   *)
(* fields, the frames and sink calls made so far, and the exception        *)
(* raised, if any) and returns the object after the call.  An action is    *)
(* one handler or one loop iteration of a thread, and commits the record   *)
(* the method returns.                                                     *)
(*                                                                         *)
(* Conventions                                                             *)
(*   - Python None is <<>>; an optional value x is <<x>>.                  *)
(*   - A Python float is an exact rational <<n, d>>, d > 0, in lowest      *)
(*     terms.                                                              *)
(*   - A Python dict whose iteration order the code relies on is a         *)
(*     sequence of <<key, value>> pairs in insertion order.                *)
(*   - A dataref path is a natural number.                                 *)
(*   - The auxiliary FMA collector (self.fma, check_fma) is left out.      *)
(***************************************************************************)
EXTENDS Integers, Sequences, FiniteSets, TLC

VARIABLES
    beacon_data,          \* XPlaneBeacon.beacon_data
    should_not_connect,   \* "None" | "clear" | "set" (threading.Event)
    connect_thread,       \* "None" | "alive" | "dead"
    all_datarefs,         \* path -> Dataref
    datarefs_to_monitor,  \* ordered dict path -> count
    datarefidx,           \* next index
    datarefs,             \* ordered dict index -> path
    states,               \* internal name -> TPState
    pages,                \* ordered dict page name -> sequence of paths
    page_usages,          \* page name -> usage count
    udp_queue,            \* sequence of <<index, value>> or TERMINATE_QUEUE
    udp_thread,           \* "None" | "alive" | "dead"
    dref_thread,          \* "None" | "alive" | "dead"
    no_upd_enqueue,       \* "None" | "clear" | "set"
    total_to,             \* upd_enqueue's local count of failed receives
    tpclient,             \* the Touch Portal sink: [connected, created]
    op,                   \* the last handler run: [name, arg, exc]
    sent,                 \* datagrams sent to the simulator by the last handler
    tp_log,               \* sink calls made by the last handler
    notified,             \* dataref_changed calls made by the last handler
    pc                    \* thread -> where it is in the code it runs

vars == <<beacon_data, should_not_connect, connect_thread, all_datarefs,
          datarefs_to_monitor, datarefidx, datarefs, states, pages, page_usages,
          udp_queue, udp_thread, dref_thread, no_upd_enqueue, total_to, tpclient,
          op, sent, tp_log, notified, pc>>

-----------------------------------------------------------------------------
(* Program constants *)

MAX_DREF_COUNT == 80
DEFAULT_REQ_FREQUENCY == 1
SOCKET_TIMEOUT == 5
MAX_TIMEOUT_COUNT == 5
RECONNECT_TIMEOUT == 10
DYNAMIC_STATES_FILE_VERSION == 4
RELOAD_STATES_FILE_COMMAND == "RELOAD_STATES_FILE"
TERMINATE_QUEUE == <<"__quit__">>
STATE_XP_CONNECTED == "tp.plugin.xplaneudp.state.XPlaneConnected"
STATE_XP_CONNMON == "tp.plugin.xplaneudp.state.ConnectionMonitoringRunning"
STATE_XP_DREFMON == "tp.plugin.xplaneudp.state.MonitoringRunning"
INT_TRUE == "1"
INT_FALSE == "0"

(* Bounds of the model *)

MaxUsage == 2      \* a page is entered at most this many times over its leaves
MaxRefs == 2       \* no handler runs that would push a count of interested pages beyond this
MaxRetired == 2    \* no handler runs that would leave more indices than this assigned and unbound
MaxQueue == 2      \* the reader receives only while the queue is shorter
MaxUpdated == 2    \* the dispatcher processes at most this many values per dataref

None == <<>>
NoneStr == "<None>"   \* None where the other values are strings

-----------------------------------------------------------------------------
(* Ordered dicts *)

Has(d, k) == \E i \in 1..Len(d) : d[i][1] = k
Pos(d, k) == CHOOSE i \in 1..Len(d) : d[i][1] = k
Get(d, k) == d[Pos(d, k)][2]
Put(d, k, v) == IF Has(d, k) THEN [d EXCEPT ![Pos(d, k)] = <<k, v>>] ELSE Append(d, <<k, v>>)
Del(d, k) == SelectSeq(d, LAMBDA e : e[1] # k)
KeySet(d) == {d[i][1] : i \in 1..Len(d)}
ValueSet(d) == {d[i][2] : i \in 1..Len(d)}
HasValue(d, v) == \E i \in 1..Len(d) : d[i][2] = v
\* list(d.keys())[list(d.values()).index(v)]: the key of the first entry holding v
KeyOf(d, v) == d[CHOOSE i \in 1..Len(d) : d[i][2] = v /\ \A j \in 1..(i - 1) : d[j][2] # v][1]

\* A for loop over seq with body Op, the object threaded through it; an
\* exception raised in the body ends the loop.  The sequence is split in halves
\* so that the evaluation stays shallow.
RECURSIVE FoldSeq(_, _, _)
FoldSeq(Op(_, _), s, seq) ==
    IF s.exc # "none" \/ Len(seq) = 0 THEN s
    ELSE IF Len(seq) = 1 THEN Op(s, seq[1])
    ELSE LET h == Len(seq) \div 2
             left == FoldSeq(Op, s, SubSeq(seq, 1, h))
         IN IF left.exc # "none" THEN left
            ELSE FoldSeq(Op, left, SubSeq(seq, h + 1, Len(seq)))

\* a function extended or overwritten at one key (a dict whose order is not used)
FPut(f, k, v) == [x \in (DOMAIN f) \cup {k} |-> IF x = k THEN v ELSE f[x]]
EmptyFcn == [x \in {} |-> 0]

-----------------------------------------------------------------------------
(* Floats as exact rationals *)

Abs(n) == IF n < 0 THEN -n ELSE n

RECURSIVE GCD(_, _)
GCD(a, b) == IF b = 0 THEN a ELSE GCD(b, a % b)

Rat(n, d) ==
    LET g == GCD(Abs(n), Abs(d))
        sgn == IF d < 0 THEN -1 ELSE 1
    IN <<sgn * (n \div g), sgn * (d \div g)>>
Flt(n) == <<n, 1>>
RAdd(a, b) == Rat(a[1] * b[2] + b[1] * a[2], a[2] * b[2])
\* a subtraction that takes its operands the other way round
RSub_swapped(a, b) == Rat(b[1] * a[2] - a[1] * b[2], a[2] * b[2])

RSub(a, b) == Rat(a[1] * b[2] - b[1] * a[2], a[2] * b[2])
RMul(a, b) == Rat(a[1] * b[1], a[2] * b[2])
RDiv(a, b) == Rat(a[1] * b[2], a[2] * b[1])
RLt(a, b) == a[1] * b[2] < b[1] * a[2]
RFloor(a) == a[1] \div a[2]                 \* \div rounds towards minus infinity
RCeil(a) == -((-a[1]) \div a[2])
RTrunc(a) == IF a[1] < 0 THEN RCeil(a) ELSE RFloor(a)   \* int(x)
\* Python's float %: the result has the sign of the divisor
RMod(a, b) == RSub(a, RMul(b, Flt(RFloor(RDiv(a, b)))))
\* round half to even, to an integer
RRoundInt(a) ==
    LET f == RFloor(a)
        twice == RSub(RMul(Flt(2), a), Flt(2 * f))     \* 2 * (a - f), in [0, 2)
    IN IF RLt(twice, Flt(1)) THEN f
       ELSE IF RLt(Flt(1), twice) THEN f + 1
       ELSE IF f % 2 = 0 THEN f ELSE f + 1
RECURSIVE Pow10(_)
Pow10(k) == IF k = 0 THEN 1 ELSE 10 * Pow10(k - 1)
\* round(x, p)
RRound(a, p) ==
    IF p >= 0 THEN Rat(RRoundInt(RMul(a, Flt(Pow10(p)))), Pow10(p))
    ELSE Flt(RRoundInt(Rat(a[1], a[2] * Pow10(-p))) * Pow10(-p))

-----------------------------------------------------------------------------
(* rpc.py: the reverse polish calculator *)

\* Tokens after RPC.__init__ has split the expression: a float, or a string.
Num(q) == <<"num", q>>
Tok(t) == <<"tok", t>>
\* A {$path$} placeholder of a formula (substituted before RPC sees it).
Ref(p) == <<"ref", p>>

Pop(stack) == SubSeq(stack, 1, Len(stack) - 1)
Top(stack) == stack[Len(stack)]

\* One token of RPC.calculate applied to the stack: [stack, exc].
RPCStep(stack, token) ==
    LET n == Len(stack)
        ok(st) == [stack |-> st, exc |-> "none"]
        err(e) == [stack |-> stack, exc |-> e]
        a == stack[n - 1]      \* second pop
        b == stack[n]          \* first pop
        under2 == Pop(Pop(stack))
    IN IF token[1] = "num" THEN ok(Append(stack, token[2]))
       ELSE IF token[2] \in {"+", "*", "-", "/", "%", "mod", "round", "eq"} /\ n < 2
            THEN err("IndexError")
       ELSE IF token[2] \in {"floor", "ceil", "abs", "not"} /\ n < 1
            THEN err("IndexError")
       ELSE IF token[2] = "+" THEN ok(Append(under2, RAdd(b, a)))
       ELSE IF token[2] = "-" THEN ok(Append(under2, RSub(a, b)))
       ELSE IF token[2] = "*" THEN ok(Append(under2, RMul(b, a)))
       ELSE IF token[2] = "/" THEN
            IF b[1] = 0 THEN err("ZeroDivisionError") ELSE ok(Append(under2, RDiv(a, b)))
       ELSE IF token[2] \in {"%", "mod"} THEN
            IF b[1] = 0 THEN err("ZeroDivisionError") ELSE ok(Append(under2, RMod(a, b)))
       ELSE IF token[2] = "floor" THEN ok(Append(Pop(stack), Flt(RFloor(b))))
       ELSE IF token[2] = "ceil" THEN ok(Append(Pop(stack), Flt(RCeil(b))))
       ELSE IF token[2] = "round" THEN ok(Append(under2, RRound(a, RTrunc(b))))
       ELSE IF token[2] = "abs" THEN ok(Append(Pop(stack), <<Abs(b[1]), b[2]>>))
       ELSE IF token[2] = "eq" THEN ok(Append(under2, IF b = a THEN Flt(1) ELSE Flt(0)))
       ELSE IF token[2] = "not" THEN ok(Append(Pop(stack), IF b[1] # 0 THEN Flt(0) ELSE Flt(1)))
       ELSE ok(stack)          \* invalid token: printed and skipped

\* the for loop of RPC.calculate from the stack r.stack on
RECURSIVE RPCRun(_, _)
RPCRun(r, tokens) ==
    IF r.exc # "none" \/ tokens = <<>> THEN r
    ELSE RPCRun(RPCStep(r.stack, Head(tokens)), Tail(tokens))

\* a return that gives 0.0 when nothing is left on the stack
RPCResult_empty_is_zero(r) ==
    IF r.exc # "none" THEN [val |-> None, exc |-> r.exc]
    ELSE IF r.stack = <<>> THEN [val |-> Flt(0), exc |-> "none"]
    ELSE [val |-> Top(r.stack), exc |-> "none"]

\* return stack.pop()
RPCResult(r) ==
    IF r.exc # "none" THEN [val |-> None, exc |-> r.exc]
    ELSE IF r.stack = <<>> THEN [val |-> None, exc |-> "IndexError"]
    ELSE [val |-> Top(r.stack), exc |-> "none"]

\* RPC(expression).calculate(): [val, exc]
calculate(tokens) == RPCResult(RPCRun([stack |-> <<>>, exc |-> "none"], tokens))

-----------------------------------------------------------------------------
(* The object the methods work on *)

connected(s) == "IP" \in DOMAIN s.beacon_data

Ok(s) == s.exc = "none"
Raise(s, e) == [s EXCEPT !.exc = e]
Return(s, v) == [s EXCEPT !.ret = v]
\* the statements F that follow a call, which do not run when the call raised
Then(s, F(_)) == IF Ok(s) THEN F(s) ELSE s

\* socket.sendto(message, (beacon_data["IP"], beacon_data["Port"]))
sendto(s, frame) ==
    IF connected(s) THEN [s EXCEPT !.sent = Append(@, frame)] ELSE Raise(s, "KeyError")

\* Thread.join(timeout) on the thread the field names; timeout is None or
\* <<seconds>>.  Without a timeout the caller waits until the thread has ended: if
\* it never does ("stalled": it waits in a call that does not return), the caller
\* waits for ever, which exc = "blocked" records.  With a timeout the caller goes on.
join(s, thread, timeout) ==
    IF timeout = None /\ s[thread] # "dead" THEN Raise(s, "blocked") ELSE s

RREF(freq, idx, path) == [kind |-> "RREF", freq |-> freq, idx |-> idx, path |-> path]
CMND(path) == [kind |-> "CMND", path |-> path]

\* XPlaneBeacon.update_state
update_state(s, state, value) ==
    IF s.tpclient.connected
    THEN [s EXCEPT !.tp_log = Append(@, <<"stateUpdate", state, value>>)]
    ELSE s

-----------------------------------------------------------------------------
(* class Dataref *)

Dataref(path) ==
    [path |-> path, update_frequency |-> 1, rounding |-> None,
     raw_previous_value |-> None, raw_current_value |-> None,
     previous_value |-> None, current_value |-> None,
     updated |-> 0, changed |-> 0, listeners |-> <<>>]

\* Dataref.set_rounding where the rounding asked last replaces the one held
set_rounding_last_wins(d, rounding) ==
    IF rounding = None THEN d ELSE [d EXCEPT !.rounding = rounding]

\* Dataref.set_rounding; rounding is None or <<decimals>>
set_rounding(d, rounding) ==
    IF rounding = None THEN d
    ELSE IF d.rounding # None
         THEN [d EXCEPT !.rounding = <<IF d.rounding[1] >= rounding[1] THEN d.rounding[1] ELSE rounding[1]>>]
         ELSE [d EXCEPT !.rounding = rounding]

InSeq(x, seq) == \E i \in 1..Len(seq) : seq[i] = x

\* Dataref.add_listener; a listener is named by the key of its TPState
add_listener(d, obj) ==
    IF ~InSeq(obj, d.listeners) THEN [d EXCEPT !.listeners = Append(@, obj)] ELSE d

\* Dataref.round / Dataref.rounded_value (called without a rounding argument)
round(d, new_value) ==
    IF new_value = None THEN new_value
    ELSE IF d.rounding # None THEN RRound(new_value, d.rounding[1]) ELSE new_value

\* XPlane.register / XPlane.get_dataref
get_dataref(s, path) ==
    IF path \in DOMAIN s.all_datarefs THEN s
    ELSE [s EXCEPT !.all_datarefs = FPut(@, path, Dataref(path))]

\* XPlane.get_dataref_value (default None)
get_dataref_value(s, path) ==
    IF path \notin DOMAIN s.all_datarefs THEN None
    ELSE s.all_datarefs[path].current_value

-----------------------------------------------------------------------------
(* class TPState *)

\* TPState.mkintname: the alphanumerics of the display name, upper-cased, after
\* PLUGIN_ID and a dot.  Tabulated for the display names the states files use.
mkintname(name) ==
    CASE name = "Big" -> "tp.plugin.xplaneudp.BIG"
      [] name = "A" -> "tp.plugin.xplaneudp.A"
      [] name = "C" -> "tp.plugin.xplaneudp.C"
      [] name = "Ratio" -> "tp.plugin.xplaneudp.RATIO"
      [] name = "ratio!" -> "tp.plugin.xplaneudp.RATIO"
      [] name = "Alt" -> "tp.plugin.xplaneudp.ALT"
      [] name = "On" -> "tp.plugin.xplaneudp.ON"
      [] OTHER -> "tp.plugin.xplaneudp."

\* TPState.extract_datarefs: the paths of the {$...$} placeholders, in order
extract_datarefs(formula) ==
    LET refs == SelectSeq(formula, LAMBDA t : t[1] = "ref")
    IN [i \in 1..Len(refs) |-> refs[i][2]]

\* the keys of a dict filled from a list: first occurrences, in order
Dedup(seq) ==
    LET first == SelectSeq([i \in 1..Len(seq) |-> i],
                           LAMBDA i : \A j \in 1..(i - 1) : seq[j] # seq[i])
    IN [k \in 1..Len(first) |-> seq[first[k]]]

\* the loop of TPState.__init__ over its dataref paths: each path's Dataref is
\* fetched or created, given the rounding, and given the listener (a repeated
\* path changes nothing the second time)
TPStateRegister(s, key, rounding, paths) ==
    LET used == {paths[i] : i \in 1..Len(paths)}
    IN [s EXCEPT !.all_datarefs =
            [path \in (DOMAIN @) \cup used |->
                IF path \in used
                THEN add_listener(set_rounding(get_dataref(s, path).all_datarefs[path], rounding), key)
                ELSE @[path]]]

\* TPState(name, config, sim), stored under states[key]
TPState(s, key, config) ==
    LET paths == extract_datarefs(config.formula)
        st == [name |-> config.name, internal_name |-> mkintname(config.name),
               formula |-> config.formula, datatype |-> config.type,
               previous_value |-> NoneStr, dataref_paths |-> paths,
               datarefs |-> Dedup(paths)]
        s1 == [s EXCEPT !.tp_log = Append(@, <<"createState", st.internal_name, "None">>),
                        !.tpclient.created = @ \cup {st.internal_name}]
        s2 == TPStateRegister(s1, key, config.rounding, paths)
    IN [s2 EXCEPT !.states = FPut(@, key, st)]

\* step 1 of TPState.value: every placeholder replaced by str(value), "0.0" for None.
\* float(str(x)) = x for every float x, so the token is the value itself.
substitute(s, formula) ==
    [i \in 1..Len(formula) |->
        IF formula[i][1] = "ref"
        THEN LET v == get_dataref_value(s, formula[i][2])
             IN Num(IF v # None THEN v ELSE Flt(0))
        ELSE formula[i]]

\* step 3 of TPState.value.  The float formats are not modelled: no states file
\* of the model declares one.
format(datatype, value) ==
    IF datatype = "int" THEN ToString(RTrunc(value))
    ELSE IF datatype \in {"boolean", "bool", "yesno"}
         THEN (IF value[1] # 0 THEN "TRUE" ELSE "FALSE")
    ELSE ""

\* TPState.value() from what RPC(expr).calculate() gave: [str, exc].  calculate
\* raises IndexError or ZeroDivisionError, never the ValueError the method catches.
TPState_format(datatype, r) ==
    IF r.exc = "ValueError" THEN [str |-> format(datatype, Flt(0)), exc |-> "none"]
    ELSE IF r.exc # "none" THEN [str |-> "", exc |-> r.exc]
    ELSE [str |-> format(datatype, r.val), exc |-> "none"]

TPState_value(s, key) ==
    TPState_format(s.states[key].datatype, calculate(substitute(s, s.states[key].formula)))

\* TPState.dataref_changed without the comparison with previous_value
dataref_changed_value_always(s, key, v) ==
    IF v.exc # "none" THEN Raise(s, v.exc)
    ELSE [s EXCEPT !.tp_log = Append(@, <<"stateUpdate", s.states[key].internal_name, v.str>>),
                   !.states[key].previous_value = v.str]

\* TPState.dataref_changed, from the value v that self.value() gave
dataref_changed_value(s, key, v) ==
    IF v.exc # "none" THEN Raise(s, v.exc)
    ELSE IF s.states[key].previous_value # v.str
         THEN [s EXCEPT !.tp_log = Append(@, <<"stateUpdate", s.states[key].internal_name, v.str>>),
                        !.states[key].previous_value = v.str]
         ELSE s

\* TPState.dataref_changed; notified records the call
dataref_changed(s, key, path) ==
    dataref_changed_value([s EXCEPT !.notified = Append(@, <<key, path>>)], key,
                          TPState_value(s, key))

\* Dataref.notify: the loop ends at the first listener that raises
RECURSIVE notify_loop(_, _, _)
notify_loop(s, path, listeners) ==
    IF ~Ok(s) \/ listeners = <<>> THEN s
    ELSE notify_loop(dataref_changed(s, Head(listeners), path), path, Tail(listeners))

notify(s, path) == notify_loop(s, path, s.all_datarefs[path].listeners)

\* Dataref.update_value once the values are stored; ret is its result
update_value_changed(s, path, cascade) ==
    IF s.all_datarefs[path].current_value = s.all_datarefs[path].previous_value
    THEN Return(s, FALSE)
    ELSE IF cascade
         THEN Return(notify([s EXCEPT !.all_datarefs[path].changed = @ + 1], path), TRUE)
         ELSE Return([s EXCEPT !.all_datarefs[path].changed = @ + 1], TRUE)

\* Dataref.update_value
update_value(s, path, new_value, cascade) ==
    update_value_changed(
        [s EXCEPT !.all_datarefs[path].raw_previous_value = s.all_datarefs[path].raw_current_value,
                  !.all_datarefs[path].raw_current_value = new_value,
                  !.all_datarefs[path].updated = @ + 1,
                  !.all_datarefs[path].previous_value = s.all_datarefs[path].current_value,
                  !.all_datarefs[path].current_value = round(s.all_datarefs[path], new_value)],
        path, cascade)


-----------------------------------------------------------------------------
(* class XPlane: requests to the simulator *)

\* _monitor_dataref taking the new index from the size of the table instead of
\* the counter
_monitor_dataref_index_from_size(s, path, freq) ==
    IF ~connected(s) THEN Return(s, FALSE)
    ELSE IF HasValue(s.datarefs, path) THEN
        LET idx == KeyOf(s.datarefs, path)
            s1 == IF freq = 0 /\ Has(s.datarefs, idx)
                  THEN [s EXCEPT !.datarefs = Del(@, idx)] ELSE s
        IN Return(sendto(s1, RREF(freq, idx, path)), TRUE)
    ELSE IF freq # 0 /\ Len(s.datarefs) > MAX_DREF_COUNT THEN Return(s, FALSE)
    ELSE LET idx == Len(s.datarefs)
             s1 == [s EXCEPT !.datarefs = Put(@, idx, path), !.datarefidx = @ + 1]
         IN Return(sendto(s1, RREF(freq, idx, path)), TRUE)

\* XPlane._monitor_dataref; every caller passes a frequency, so freq is a number
_monitor_dataref(s, path, freq) ==
    IF ~connected(s) THEN Return(s, FALSE)
    ELSE IF HasValue(s.datarefs, path) THEN
        LET idx == KeyOf(s.datarefs, path)
            s1 == IF freq = 0 /\ Has(s.datarefs, idx)
                  THEN [s EXCEPT !.datarefs = Del(@, idx)] ELSE s
        IN Return(sendto(s1, RREF(freq, idx, path)), TRUE)
    ELSE IF freq # 0 /\ Len(s.datarefs) > MAX_DREF_COUNT THEN Return(s, FALSE)
    ELSE LET idx == s.datarefidx
             s1 == [s EXCEPT !.datarefs = Put(@, idx, path), !.datarefidx = @ + 1]
         IN Return(sendto(s1, RREF(freq, idx, path)), TRUE)

\* XPlane._unmonitor_dataref
_unmonitor_dataref(s, path) == _monitor_dataref(s, path, 0)

\* XPlane._execute_command; NOT_A_COMMAND are the placeholders has_command rejects
NOT_A_COMMAND == {"none", "noop", "no-operation", "no-command", "do-nothing"}

\* str.lower(), tabulated for the command paths the actions carry
lower(path) ==
    CASE path = "NoOp" -> "noop"
      [] path = "RELOAD_STATES_FILE" -> "reload_states_file"
      [] OTHER -> path

\* Command.has_command, for a Command whose path is not None
has_command(path) == lower(path) \notin NOT_A_COMMAND

\* command is None or <<path>>, the path of a Command
_execute_command(s, command) ==
    IF command = None THEN s
    ELSE IF ~has_command(command[1]) THEN s
    ELSE IF ~connected(s) THEN s
    ELSE sendto(s, CMND(command[1]))

\* XPlane.suppress_monitoring_of_all_datarefs_to_monitor.  The for loop runs over
\* self.datarefs.values() while _unmonitor_dataref deletes from self.datarefs:
\* the dict iterator raises RuntimeError at its next step when the size of the
\* dict is no longer the size n it had when the loop began.
RECURSIVE suppress_loop(_, _, _)
suppress_loop(s, i, n) ==
    IF Len(s.datarefs) # n THEN Raise(s, "RuntimeError")
    ELSE IF i > Len(s.datarefs) THEN s
    ELSE LET s1 == _unmonitor_dataref(s, s.datarefs[i][2])
         IN IF ~Ok(s1) THEN s1 ELSE suppress_loop(s1, i + 1, n)

suppress_monitoring_of_all_datarefs_to_monitor(s) ==
    IF ~connected(s) THEN s ELSE suppress_loop(s, 1, Len(s.datarefs))

\* XPlane.start_monitoring_of_datarefs_to_monitor
start_monitoring_step(s, path) ==
    IF ~Ok(s) THEN s
    ELSE IF path \in DOMAIN s.all_datarefs
         THEN _monitor_dataref(s, path, s.all_datarefs[path].update_frequency)
         ELSE s

DictKeys(d) == [i \in 1..Len(d) |-> d[i][1]]

start_monitoring_of_datarefs_to_monitor(s) ==
    IF ~connected(s) THEN s
    ELSE IF Len(s.datarefs_to_monitor) = 0 THEN s
    ELSE FoldSeq(start_monitoring_step, s, DictKeys(s.datarefs_to_monitor))

\* d.update_frequency of a Dataref object a page holds
update_frequency(s, path) ==
    IF path \in DOMAIN s.all_datarefs THEN s.all_datarefs[path].update_frequency
    ELSE DEFAULT_REQ_FREQUENCY

\* XPlane.add_datarefs_to_monitor; drefs are the paths of the dict passed
add_step(s, path) ==
    IF ~Ok(s) THEN s
    ELSE IF ~Has(s.datarefs_to_monitor, path)
         THEN LET s0 == [s EXCEPT !.datarefs_to_monitor = Put(@, path, 1)]
              IN IF connected(s0)
                 THEN _monitor_dataref(s0, path, update_frequency(s0, path))
                 ELSE s0
         ELSE [s EXCEPT !.datarefs_to_monitor = Put(@, path, Get(@, path) + 1)]

add_datarefs_to_monitor(s, drefs) == FoldSeq(add_step, s, drefs)

\* XPlane.remove_datarefs_to_monitor
remove_count(s, path) ==
    IF ~Ok(s) THEN s
    ELSE IF Get(s.datarefs_to_monitor, path) - 1 = 0
         THEN [s EXCEPT !.datarefs_to_monitor = Del(@, path)]
         ELSE [s EXCEPT !.datarefs_to_monitor = Put(@, path, Get(@, path) - 1)]

remove_step(s, path) ==
    IF ~Ok(s) THEN s
    ELSE IF Has(s.datarefs_to_monitor, path)
         THEN remove_count(IF Get(s.datarefs_to_monitor, path) = 1
                           THEN _unmonitor_dataref(s, path) ELSE s, path)
         ELSE s

remove_datarefs_to_monitor(s, drefs) ==
    IF ~connected(s) /\ Len(s.datarefs_to_monitor) > 0 THEN s
    ELSE FoldSeq(remove_step, s, drefs)

\* XPlane.delete_all_datarefs
delete_all_reset(s) == [s EXCEPT !.all_datarefs = EmptyFcn, !.datarefs_to_monitor = <<>>]

delete_all_datarefs(s) ==
    LET keys == DictKeys(s.datarefs_to_monitor)
    IN IF \E i \in 1..Len(keys) : keys[i] \notin DOMAIN s.all_datarefs
       THEN Raise(s, "KeyError")
       ELSE Then(remove_datarefs_to_monitor(s, keys), delete_all_reset)

\* XPlane.cleanup
cleanup(s) == suppress_monitoring_of_all_datarefs_to_monitor(s)

-----------------------------------------------------------------------------
(* class XPlane: pages *)

\* XPlane._unload_page
_unload_page(s, page_name) ==
    IF Has(s.pages, page_name) THEN
        IF s.page_usages[page_name] > 0 THEN
            LET s1 == [s EXCEPT !.page_usages[page_name] = @ - 1]
            IN IF s1.page_usages[page_name] = 0
               THEN remove_datarefs_to_monitor(s1, Get(s1.pages, page_name))
               ELSE s1
        ELSE s
    ELSE s

\* XPlane._load_page without the test of the usage of the page
_load_page_always_adds(s, page_name) ==
    IF Has(s.pages, page_name) THEN
        Then(add_datarefs_to_monitor(s, Get(s.pages, page_name)),
             LAMBDA s1 : [s1 EXCEPT !.page_usages[page_name] = @ + 1])
    ELSE s

\* XPlane._load_page
_load_page(s, page_name) ==
    IF Has(s.pages, page_name) THEN
        Then(IF s.page_usages[page_name] = 0
             THEN add_datarefs_to_monitor(s, Get(s.pages, page_name))
             ELSE s,
             LAMBDA s1 : [s1 EXCEPT !.page_usages[page_name] = @ + 1])
    ELSE s

\* XPlane.leaving_page
leaving_page(s, page_name) ==
    IF Has(s.pages, page_name) THEN _unload_page(s, page_name) ELSE s

\* XPlane.entering_page
entering_page(s, page_name) ==
    IF Has(s.pages, page_name) THEN _load_page(s, page_name) ELSE s


-----------------------------------------------------------------------------
(* class XPlaneBeacon, and XPlane's start and stop *)

\* what FindIp records of an accepted beacon
BeaconData == [IP |-> "10.0.0.5", Port |-> 49000, hostname |-> "rig",
               XPlaneVersion |-> 120000, role |-> 1]

\* FindIp without its test of beacon_minor_version
FindIp_any_minor(s, packet) ==
    LET s0 == [s EXCEPT !.beacon_data = EmptyFcn]
    IN IF packet.kind = "timeout" THEN Raise(s0, "XPlaneIpNotFound")
       ELSE IF packet.header # "BECN" THEN s0
       ELSE IF ~packet.complete THEN Raise(s0, "struct.error")
       ELSE IF packet.major = 1 /\ packet.app = 1
            THEN update_state([s0 EXCEPT !.beacon_data = BeaconData], STATE_XP_CONNECTED, INT_TRUE)
            ELSE Raise(update_state(s0, STATE_XP_CONNECTED, INT_FALSE), "XPlaneVersionNotSupported")

\* XPlaneBeacon.FindIp; packet is what recvfrom yields: a timeout or a datagram.
\* struct.unpack raises struct.error on a datagram that has the header and is too
\* short for the fields.
FindIp(s, packet) ==
    LET s0 == [s EXCEPT !.beacon_data = EmptyFcn]
    IN IF packet.kind = "timeout" THEN Raise(s0, "XPlaneIpNotFound")
       ELSE IF packet.header # "BECN" THEN s0
       ELSE IF ~packet.complete THEN Raise(s0, "struct.error")
       ELSE IF packet.major = 1 /\ packet.minor <= 2 /\ packet.app = 1
            THEN update_state([s0 EXCEPT !.beacon_data = BeaconData], STATE_XP_CONNECTED, INT_TRUE)
            ELSE Raise(update_state(s0, STATE_XP_CONNECTED, INT_FALSE), "XPlaneVersionNotSupported")

\* XPlane.start
start(s) ==
    IF ~connected(s) THEN s
    ELSE LET s1 == IF s.no_upd_enqueue = "None"
                   THEN [s EXCEPT !.no_upd_enqueue = "clear", !.udp_thread = "alive", !.total_to = 0]
                   ELSE s
             s2 == IF s1.dref_thread = "None"
                   THEN update_state([s1 EXCEPT !.dref_thread = "alive"], STATE_XP_DREFMON, INT_TRUE)
                   ELSE s1
         IN Then(suppress_monitoring_of_all_datarefs_to_monitor(s2),
                 start_monitoring_of_datarefs_to_monitor)

\* connect_loop without its except XPlaneIpNotFound clause
connect_loop_except_version_only(s) ==
    IF s.exc = "XPlaneVersionNotSupported"
    THEN [s EXCEPT !.beacon_data = EmptyFcn, !.exc = "none"]
    ELSE IF ~Ok(s) THEN [s EXCEPT !.connect_thread = "dead"]
    ELSE s

\* One iteration of XPlaneBeacon.connect_loop in its disconnected branch.  An
\* exception other than the two it catches ends the thread.
connect_loop_except(s) ==
    IF s.exc \in {"XPlaneVersionNotSupported", "XPlaneIpNotFound"}
    THEN [s EXCEPT !.beacon_data = EmptyFcn, !.exc = "none"]
    ELSE IF ~Ok(s) THEN [s EXCEPT !.connect_thread = "dead"]
    ELSE s

connect_loop_start(s) == IF connected(s) THEN start(s) ELSE s

connect_loop(s, packet) == connect_loop_except(Then(FindIp(s, packet), connect_loop_start))

\* XPlaneBeacon.connect
connect(s) ==
    IF s.should_not_connect = "None"
    THEN update_state([s EXCEPT !.should_not_connect = "clear", !.connect_thread = "alive"],
                      STATE_XP_CONNMON, INT_TRUE)
    ELSE s

\* disconnect without its should_not_connect.set() and its reset of the event to
\* None: the states are pushed and the supervisor is left running
disconnect_monitor_left_running(s) ==
    update_state(update_state([s EXCEPT !.beacon_data = EmptyFcn], STATE_XP_CONNECTED, INT_FALSE),
                 STATE_XP_CONNMON, INT_FALSE)

\* XPlaneBeacon.disconnect.  The supervisor wakes from its wait when the event
\* is set and leaves its loop.
disconnect_monitor(s) ==
    update_state(
        join([update_state([s EXCEPT !.beacon_data = EmptyFcn], STATE_XP_CONNECTED, INT_FALSE)
                EXCEPT !.connect_thread = IF @ = "alive" THEN "dead" ELSE @,
                       !.should_not_connect = "None"],
             "connect_thread", <<RECONNECT_TIMEOUT>>),
        STATE_XP_CONNMON, INT_FALSE)

disconnect(s) ==
    IF s.should_not_connect # "None" THEN Then(cleanup(s), disconnect_monitor)
    ELSE IF connected(s)
         THEN update_state([s EXCEPT !.beacon_data = EmptyFcn], STATE_XP_CONNECTED, INT_FALSE)
         ELSE s

-----------------------------------------------------------------------------
(* The reader and the dispatcher *)

\* One iteration of XPlane.upd_enqueue with len(self.datarefs) > 0, followed by
\* the loop test: packet is what recvfrom yields.  Every exception counts as a
\* timeout.
RECURSIVE enqueue(_, _)
enqueue(s, records) ==
    IF records = <<>> THEN s
    ELSE enqueue([s EXCEPT !.udp_queue = Append(@, Head(records))], Tail(records))

\* upd_enqueue with total_to = 0 moved under the test of the header: a datagram
\* that is not an RREF answer leaves the count as it is
upd_enqueue_reset_on_rref(s, packet) ==
    LET s1 == IF packet.kind = "timeout"
              THEN LET s0 == [s EXCEPT !.total_to = @ + 1]
                   IN IF s0.total_to >= MAX_TIMEOUT_COUNT
                      THEN LET s00 == update_state([s0 EXCEPT !.beacon_data = EmptyFcn],
                                                   STATE_XP_CONNECTED, INT_FALSE)
                           IN IF s00.no_upd_enqueue = "clear"
                              THEN [s00 EXCEPT !.no_upd_enqueue = "set"] ELSE s00
                      ELSE s0
              ELSE IF packet.header = "RREF," THEN enqueue([s EXCEPT !.total_to = 0], packet.records)
                   ELSE s
    IN IF s1.no_upd_enqueue = "set"
       THEN [s1 EXCEPT !.no_upd_enqueue = "None", !.udp_thread = "dead"]
       ELSE s1

upd_enqueue(s, packet) ==
    LET s1 == IF packet.kind = "timeout"
              THEN LET s0 == [s EXCEPT !.total_to = @ + 1]
                   IN IF s0.total_to >= MAX_TIMEOUT_COUNT
                      THEN LET s00 == update_state([s0 EXCEPT !.beacon_data = EmptyFcn],
                                                   STATE_XP_CONNECTED, INT_FALSE)
                           IN IF s00.no_upd_enqueue = "clear"
                              THEN [s00 EXCEPT !.no_upd_enqueue = "set"] ELSE s00
                      ELSE s0
              ELSE LET s0 == [s EXCEPT !.total_to = 0]
                   IN IF packet.header = "RREF," THEN enqueue(s0, packet.records) ELSE s0
    IN IF s1.no_upd_enqueue = "set"
       THEN [s1 EXCEPT !.no_upd_enqueue = "None", !.udp_thread = "dead"]
       ELSE s1

\* The test for tiny negative values with -0.001 itself taken for one
TinyNegative_inclusive(value) == RLt(value, Flt(0)) /\ ~RLt(value, Rat(-1, 1000))

\* The body of the loop of XPlane.dataref_listener for one dequeued item
TinyNegative(value) == RLt(value, Flt(0)) /\ RLt(Rat(-1, 1000), value)

\* The loop body with self.datarefs[values[0]] where the code has
\* self.datarefs.get(values[0]): an index that is not bound raises KeyError.
dataref_listener_item_subscript(s, values) ==
    IF values = TERMINATE_QUEUE THEN [s EXCEPT !.dref_thread = "dead"]
    ELSE IF ~Has(s.datarefs, values[1]) THEN Raise(s, "KeyError")
    ELSE update_value(s, Get(s.datarefs, values[1]),
                      IF TinyNegative(values[2]) THEN Flt(0) ELSE values[2],
                      Has(s.datarefs_to_monitor, Get(s.datarefs, values[1])))

dataref_listener_item(s, values) ==
    IF values = TERMINATE_QUEUE THEN [s EXCEPT !.dref_thread = "dead"]
    ELSE LET value == IF TinyNegative(values[2]) THEN Flt(0) ELSE values[2]
         IN IF Has(s.datarefs, values[1])
            THEN LET d == Get(s.datarefs, values[1])
                 IN IF d \notin DOMAIN s.all_datarefs THEN Raise(s, "KeyError")
                    ELSE update_value(s, d, value, Has(s.datarefs_to_monitor, d))
            ELSE s

\* One iteration of XPlane.dataref_listener: a RuntimeError is logged, any other
\* exception ends the thread.
dataref_listener_except(s) ==
    IF s.exc \in {"none", "RuntimeError"} THEN s ELSE [s EXCEPT !.dref_thread = "dead"]

\* dataref_listener on a queue that hands out its newest item first
dataref_listener_newest_first(s) ==
    dataref_listener_except(
        dataref_listener_item([s EXCEPT !.udp_queue = SubSeq(@, 1, Len(@) - 1)],
                              s.udp_queue[Len(s.udp_queue)]))

dataref_listener(s) ==
    dataref_listener_except(
        dataref_listener_item([s EXCEPT !.udp_queue = Tail(@)], Head(s.udp_queue)))

\* The dispatcher running until it ends (a join without timeout waits for this)
RECURSIVE dataref_listener_run(_)
dataref_listener_run(s) ==
    IF s.dref_thread # "alive" \/ s.udp_queue = <<>> THEN s
    ELSE dataref_listener_run([dataref_listener(s) EXCEPT !.exc = "none"])

\* XPlane.stop.  The reader ends once its event is set (or, if stop has already
\* put None in no_upd_enqueue, on the AttributeError of its loop test).
stop_dispatcher_joined(s) ==
    update_state([s EXCEPT !.dref_thread = "None"], STATE_XP_DREFMON, INT_FALSE)

stop_dispatcher(s) ==
    IF s.dref_thread # "None"
    THEN Then(join(dataref_listener_run([s EXCEPT !.udp_queue = Append(@, TERMINATE_QUEUE)]),
                   "dref_thread", None),
              stop_dispatcher_joined)
    ELSE s

stop_reader(s) ==
    IF s.no_upd_enqueue # "None"
    THEN join([s EXCEPT !.no_upd_enqueue = "None", !.udp_thread = IF @ = "alive" THEN "dead" ELSE @],
              "udp_thread", <<SOCKET_TIMEOUT>>)
    ELSE s

stop_threads(s) == Then(stop_dispatcher(s), stop_reader)

stop(s) == Then(suppress_monitoring_of_all_datarefs_to_monitor(s), stop_threads)

\* XPlaneBeacon.connection_monitor_running
connection_monitor_running(s) == s.should_not_connect = "clear"

\* XPlane.terminate
terminate(s) ==
    IF ~connected(s)
    THEN (IF connection_monitor_running(s) THEN disconnect(s) ELSE s)
    ELSE Then(Then(Then(stop(s), cleanup), delete_all_datarefs), disconnect)

-----------------------------------------------------------------------------
(* XPlane.init and XPlane.reinit *)

\* pages[page_name] | states[key].datarefs
DictUnion(paths, more) == Dedup(paths \o more)

\* state.get("internal_name", TPState.mkintname(name))
StateKey(config) == IF config.internal_name # None THEN config.internal_name[1] ELSE mkintname(config.name)

\* the loop over a page's states that adds to the page the datarefs of the states
\* it creates only
RECURSIVE init_states_new_only(_, _, _)
init_states_new_only(s, page_name, page_states) ==
    IF page_states = <<>> THEN s
    ELSE LET config == Head(page_states)
             key == StateKey(config)
             s1 == IF key \notin DOMAIN s.states THEN TPState(s, key, config) ELSE s
             s2 == IF key \notin DOMAIN s.states
                   THEN [s1 EXCEPT !.pages = Put(@, page_name, DictUnion(Get(@, page_name), s1.states[key].datarefs))]
                   ELSE s1
         IN init_states_new_only(s2, page_name, Tail(page_states))

RECURSIVE init_states(_, _, _)
init_states(s, page_name, page_states) ==
    IF page_states = <<>> THEN s
    ELSE LET config == Head(page_states)
             key == StateKey(config)
             s1 == IF key \notin DOMAIN s.states THEN TPState(s, key, config) ELSE s
             s2 == [s1 EXCEPT !.pages = Put(@, page_name, DictUnion(Get(@, page_name), s1.states[key].datarefs))]
         IN init_states(s2, page_name, Tail(page_states))

RECURSIVE init_pages(_, _)
init_pages(s, file_pages) ==
    IF file_pages = <<>> THEN s
    ELSE LET page == Head(file_pages)
             s1 == [s EXCEPT !.pages = Put(@, page.name, <<>>),
                             !.page_usages = FPut(@, page.name, 0)]
         IN init_pages(init_states(s1, page.name, page.states), Tail(file_pages))

\* XPlane.commandOnce
commandOnce(s, command) == _execute_command(s, <<command>>)

\* XPlane.init; file is what is on disk under DYNAMIC_STATES_FILE_NAME
init(s, file) ==
    IF ~file.exists THEN s
    ELSE IF ~file.json_ok THEN Raise(s, "JSONDecodeError")
    ELSE IF file.version # DYNAMIC_STATES_FILE_VERSION THEN s
    ELSE connect(init_pages(s, file.pages))

RECURSIVE reinit_unload(_, _)
reinit_unload(s, names) ==
    IF ~Ok(s) \/ names = <<>> THEN s
    ELSE reinit_unload(IF s.page_usages[Head(names)] > 0
                       THEN _unload_page([s EXCEPT !.page_usages[Head(names)] = 1], Head(names))
                       ELSE s,
                       Tail(names))

\* reinit without its test of the file: it unloads, and leaves the test to init
reinit_untested(s, file) ==
    Then(reinit_unload(s, DictKeys(s.pages)),
         LAMBDA s1 : init([s1 EXCEPT !.pages = <<>>], file))

\* XPlane.reinit(), as main.py calls it: fn is None
reinit(s, file) ==
    IF ~file.exists THEN s
    ELSE IF ~file.json_ok THEN s
    ELSE IF file.version # DYNAMIC_STATES_FILE_VERSION THEN s
    ELSE Then(reinit_unload(s, DictKeys(s.pages)),
              LAMBDA s1 : init([s1 EXCEPT !.pages = <<>>], file))


-----------------------------------------------------------------------------
(* States files and datagrams: the inputs *)

StateConfig(name, formula, type) ==
    [name |-> name, internal_name |-> None, formula |-> formula, type |-> type, rounding |-> None]

\* A file whose pages together need two datarefs more than MAX_DREF_COUNT:
\* big needs MAX_DREF_COUNT of them, a shares one with big and adds one, c has
\* its own.
CapFile ==
    [exists |-> TRUE, json_ok |-> TRUE, version |-> 4, pages |-> <<
        [name |-> "big", states |-> <<StateConfig("Big", [i \in 1..MAX_DREF_COUNT |-> Ref(i)], "int")>>],
        [name |-> "a", states |-> <<StateConfig("A", <<Ref(MAX_DREF_COUNT), Ref(MAX_DREF_COUNT + 1), Tok("+")>>, "int")>>],
        [name |-> "c", states |-> <<StateConfig("C", <<Ref(MAX_DREF_COUNT + 2)>>, "int")>>] >>]

\* A small file: Ratio divides path 1 by path 2; Alt and On listen to one path each.
SmallFile ==
    [exists |-> TRUE, json_ok |-> TRUE, version |-> 4, pages |-> <<
        [name |-> "a", states |-> <<StateConfig("Ratio", <<Ref(1), Ref(2), Tok("/")>>, "int"),
                                    StateConfig("Alt", <<Ref(1)>>, "int")>>],
        [name |-> "b", states |-> <<StateConfig("On", <<Ref(2)>>, "boolean")>>] >>]

\* The states of SmallFile, each asking a rounding for its datarefs
\* ("dataref-rounding", absent or a number of decimals)
Roundings == {None, <<-1>>, <<0>>, <<2>>}
RoundFile(r1, r2, r3) ==
    [exists |-> TRUE, json_ok |-> TRUE, version |-> 4, pages |-> <<
        [name |-> "a", states |-> <<[StateConfig("Ratio", <<Ref(1), Ref(2), Tok("/")>>, "int") EXCEPT !.rounding = r1],
                                    [StateConfig("Alt", <<Ref(1)>>, "int") EXCEPT !.rounding = r2]>>],
        [name |-> "b", states |-> <<[StateConfig("On", <<Ref(2)>>, "boolean") EXCEPT !.rounding = r3]>>] >>]
RoundFiles == {RoundFile(r1, r2, r3) : r1, r2, r3 \in Roundings}

\* A later version of the file: page a has one more state, with its rounding
\* for the first dataref
MoreFile(r) ==
    [exists |-> TRUE, json_ok |-> TRUE, version |-> 4, pages |-> <<
        [name |-> "a", states |-> <<StateConfig("Ratio", <<Ref(1), Ref(2), Tok("/")>>, "int"),
                                    [StateConfig("A", <<Ref(1)>>, "int") EXCEPT !.rounding = r]>>] >>]
MoreFiles == {MoreFile(r) : r \in Roundings}

MissingFile == [exists |-> FALSE, json_ok |-> FALSE, version |-> 0, pages |-> <<>>]
MalformedFile == [exists |-> TRUE, json_ok |-> FALSE, version |-> 0, pages |-> <<>>]
OldVersionFile == [SmallFile EXCEPT !.version = 3]
\* Another valid file: Ratio is declared again, from another path; Alt, On and
\* page b are gone.
NewFile ==
    [exists |-> TRUE, json_ok |-> TRUE, version |-> 4, pages |-> <<
        [name |-> "a", states |-> <<StateConfig("Ratio", <<Ref(3)>>, "int")>>] >>]
\* NewFile with a rounding of two decimals asked for its dataref
NewFileRounded == [NewFile EXCEPT !.pages[1].states[1].rounding = <<2>>]
BadFiles == {MissingFile, MalformedFile, OldVersionFile}

ValidFile(file) == file.exists /\ file.json_ok /\ file.version = DYNAMIC_STATES_FILE_VERSION

PageNames == {"big", "a", "c"}

Timeout == [kind |-> "timeout"]
Beacon(header, major, minor, app) ==
    [kind |-> "data", header |-> header, complete |-> TRUE,
     major |-> major, minor |-> minor, app |-> app]
GoodBeacon == Beacon("BECN", 1, 2, 1)
\* a datagram that ends after the header
ShortBeacon == [GoodBeacon EXCEPT !.complete = FALSE]
BeaconPackets ==
    {Timeout, GoodBeacon, ShortBeacon, Beacon("XXXX", 1, 2, 1),
     Beacon("BECN", 1, 3, 1), Beacon("BECN", 2, 2, 1), Beacon("BECN", 1, 2, 2)}

RREFPacket(records) == [kind |-> "data", header |-> "RREF,", records |-> records]
PacketValues == {Flt(0), Flt(1), Rat(-1, 2000)}
PacketIdx == 0..2
PacketRecords == PacketIdx \X PacketValues
OtherPacket == [kind |-> "data", header |-> "XXXX,", records |-> <<>>]
DataPackets == {RREFPacket(<<r>>) : r \in PacketRecords} \cup {OtherPacket}

-----------------------------------------------------------------------------
(* Actions *)

\* the object as the variables hold it, before a handler runs
\* the worker threads of TP.Client(maxWorkers=4) that run handlers at the same time
Handlers == {"h1", "h2"}

\* the threads that run upd_enqueue, dataref_listener and connect_loop: two names
\* for each, for the thread a field refers to and one that was left running
Readers == {"r1", "r2"}
Dispatchers == {"d1", "d2"}
Supervisors == {"s1", "s2"}

\* a thread that runs nothing: a handler thread between two handlers, a task
\* thread not started or ended
Idle ==
    [at |-> "idle", page |-> NoneStr, todo |-> <<>>, path |-> 0, freq |-> 0, found |-> FALSE,
     back |-> "idle"]

\* Thread(target=...).start(): a thread of the role begins, at its loop test
Begin(p, role) ==
    IF \E t \in role : p[t].at = "idle"
    THEN [p EXCEPT ![CHOOSE t \in role : p[t].at = "idle"] = [Idle EXCEPT !.at = "loop"]]
    ELSE p

\* the threads of the role that are at one of the positions ats end
End(p, role, ats) ==
    [t \in DOMAIN p |-> IF t \in role /\ p[t].at \in ats THEN Idle ELSE p[t]]

\* the task threads after a step that left the object r.  connect and start
\* create a thread when the Event (or, for the dispatcher, the thread) they test
\* is None.  A reader at its loop test ends once its Event is set or gone; one
\* that waits in recvfrom does not, and join(SOCKET_TIMEOUT) returns without it.
\* The dispatcher is joined without a timeout; the supervisor ends at its loop
\* test, which follows the wait that set() ends.
Tasks(p, r) ==
    LET p1 == IF no_upd_enqueue # "None" /\ r.no_upd_enqueue = "None"
              THEN End(p, Readers, {"loop"}) ELSE p
        p2 == IF dref_thread = "alive" /\ r.dref_thread # "alive"
              THEN End(p1, Dispatchers, {"loop"}) ELSE p1
        p3 == IF connect_thread = "alive" /\ r.connect_thread # "alive"
              THEN End(p2, Supervisors, {"loop"}) ELSE p2
        p4 == IF no_upd_enqueue = "None" /\ r.no_upd_enqueue # "None" THEN Begin(p3, Readers) ELSE p3
        p5 == IF dref_thread = "None" /\ r.dref_thread = "alive" THEN Begin(p4, Dispatchers) ELSE p4
    IN IF should_not_connect = "None" /\ r.should_not_connect # "None"
       THEN Begin(p5, Supervisors) ELSE p5

self ==
    [beacon_data |-> beacon_data, should_not_connect |-> should_not_connect,
     connect_thread |-> connect_thread, all_datarefs |-> all_datarefs,
     datarefs_to_monitor |-> datarefs_to_monitor, datarefidx |-> datarefidx,
     datarefs |-> datarefs, states |-> states, pages |-> pages,
     page_usages |-> page_usages, udp_queue |-> udp_queue, udp_thread |-> udp_thread,
     dref_thread |-> dref_thread, no_upd_enqueue |-> no_upd_enqueue,
     total_to |-> total_to, tpclient |-> tpclient,
     sent |-> <<>>, tp_log |-> <<>>, notified |-> <<>>, exc |-> "none", ret |-> TRUE]

\* the variables after a step that left the object r and the handler threads at p
CommitAt(r, name, arg, p) ==
    /\ beacon_data' = r.beacon_data
    /\ should_not_connect' = r.should_not_connect
    /\ connect_thread' = r.connect_thread
    /\ all_datarefs' = r.all_datarefs
    /\ datarefs_to_monitor' = r.datarefs_to_monitor
    /\ datarefidx' = r.datarefidx
    /\ datarefs' = r.datarefs
    /\ states' = r.states
    /\ pages' = r.pages
    /\ page_usages' = r.page_usages
    /\ udp_queue' = r.udp_queue
    /\ udp_thread' = r.udp_thread
    /\ dref_thread' = r.dref_thread
    /\ no_upd_enqueue' = r.no_upd_enqueue
    /\ total_to' = r.total_to
    /\ tpclient' = r.tpclient
    /\ op' = [name |-> name, arg |-> arg, exc |-> r.exc]
    /\ sent' = r.sent
    /\ tp_log' = r.tp_log
    /\ notified' = r.notified
    /\ pc' = p

\* the variables after a handler has run as a whole and left the object r
Commit(r, name, arg) == CommitAt(r, name, arg, Tasks(pc, r))

\* the bounds on what a run uses up: indices, and counts of interested pages
Bounded(r) ==
    /\ r.datarefidx - Len(r.datarefs) <= MaxRetired
    /\ \A i \in 1..Len(r.datarefs_to_monitor) : r.datarefs_to_monitor[i][2] <= MaxRefs

Init ==
    /\ beacon_data = EmptyFcn
    /\ should_not_connect = "None"
    /\ connect_thread = "None"
    /\ all_datarefs = EmptyFcn
    /\ datarefs_to_monitor = <<>>
    /\ datarefidx = 0
    /\ datarefs = <<>>
    /\ states = EmptyFcn
    /\ pages = <<>>
    /\ page_usages = EmptyFcn
    /\ udp_queue = <<>>
    /\ udp_thread = "None"
    /\ dref_thread = "None"
    /\ no_upd_enqueue = "None"
    /\ total_to = 0
    /\ tpclient = [connected |-> FALSE, closed |-> FALSE, created |-> {}]
    /\ op = [name |-> "__init__", arg |-> None, exc |-> "none"]
    /\ sent = <<>>
    /\ tp_log = <<>>
    /\ notified = <<>>
    /\ pc = [t \in Handlers \cup Readers \cup Dispatchers \cup Supervisors |-> Idle]

\* main.py onConnect: Touch Portal is connected, then XPClient.init()
OnConnect(file) ==
    /\ ~tpclient.connected /\ ~tpclient.closed
    /\ Commit(init([self EXCEPT !.tpclient.connected = TRUE], file), "init", file)

\* main.py onBroadcast pageChange: XPClient.entering_page(page_name)
EnteringPage(page_name) ==
    /\ tpclient.connected
    /\ page_name \in DOMAIN page_usages => page_usages[page_name] < MaxUsage
    /\ LET r == entering_page(self, page_name)
       IN Bounded(r) /\ Commit(r, "entering_page", page_name)

\* main.py onAction LeavingPage: XPClient.leaving_page(page_name)
LeavingPage(page_name) ==
    /\ tpclient.connected
    /\ LET r == leaving_page(self, page_name)
       IN Bounded(r) /\ Commit(r, "leaving_page", page_name)

\* main.py onAction ExecuteCommand RELOAD_STATES_FILE: XPClient.reinit()
Reinit(file) ==
    /\ tpclient.connected
    /\ LET r == reinit(self, file)
       IN Bounded(r) /\ Commit(r, "reinit", file)

\* main.py onShutdown: XPClient.terminate(), then TPClient.disconnect()
OnShutdown ==
    /\ tpclient.connected
    /\ LET r == terminate(self)
           r1 == IF Ok(r) THEN [r EXCEPT !.tpclient.connected = FALSE, !.tpclient.closed = TRUE] ELSE r
       IN Bounded(r1) /\ Commit(r1, "terminate", None)

\* the supervisor thread: one iteration of connect_loop while not connected
Supervisor(packet) ==
    /\ connect_thread = "alive" /\ should_not_connect = "clear"
    /\ ~connected(self)
    /\ LET r == connect_loop(self, packet)
       IN Bounded(r) /\ Commit(r, "connect_loop", packet)

\* the reader thread: one iteration of upd_enqueue whose receive fails
ReaderTimeout ==
    /\ udp_thread = "alive" /\ no_upd_enqueue = "clear"
    /\ Len(datarefs) > 0
    /\ Commit(upd_enqueue(self, Timeout), "upd_enqueue", Timeout)

\* the reader thread: one iteration of upd_enqueue that receives a datagram
ReaderReceive(packet) ==
    /\ udp_thread = "alive" /\ no_upd_enqueue = "clear"
    /\ Len(datarefs) > 0
    /\ Len(udp_queue) + Len(packet.records) <= MaxQueue
    /\ Commit(upd_enqueue(self, packet), "upd_enqueue", packet)

\* the dispatcher thread: one iteration of dataref_listener
Dispatch ==
    /\ dref_thread = "alive" /\ udp_queue # <<>>
    /\ \A path \in DOMAIN all_datarefs : all_datarefs[path].updated < MaxUpdated
    /\ Commit(dataref_listener(self), "dataref_listener", Head(udp_queue))

\* Pages and subscriptions at the capacity of the table: the values the
\* simulator sends play no part in them (SpecDisp has them).
Next ==
    \/ OnConnect(CapFile)
    \/ \E page_name \in PageNames : EnteringPage(page_name)
    \/ \E page_name \in PageNames : LeavingPage(page_name)
    \/ \E packet \in {Timeout, GoodBeacon} : Supervisor(packet)
    \/ OnShutdown

Spec == Init /\ [][Next]_vars

\* The pipeline from the reader to the sink, over the small file.
NextDisp ==
    \/ OnConnect(SmallFile)
    \/ \E page_name \in {"a", "b"} : EnteringPage(page_name)
    \/ \E page_name \in {"a", "b"} : LeavingPage(page_name)
    \/ Supervisor(GoodBeacon)
    \/ \E packet \in DataPackets : ReaderReceive(packet)
    \/ Dispatch

SpecDisp == Init /\ [][NextDisp]_vars

\* The life of the link and of the states file, over the small file: the
\* simulator found, lost and found again, the file reloaded, the plugin shut
\* down.  zz is on no page of any file.
NextLife ==
    \/ \E file \in {SmallFile} \cup BadFiles : OnConnect(file)
    \/ \E page_name \in {"a", "b", "zz"} : EnteringPage(page_name)
    \/ \E page_name \in {"a", "b", "zz"} : LeavingPage(page_name)
    \/ \E file \in {SmallFile} \cup BadFiles : Reinit(file)
    \/ \E packet \in BeaconPackets : Supervisor(packet)
    \/ ReaderTimeout
    \/ OnShutdown

SpecLife == Init /\ [][NextLife]_vars

\* The states file replaced by another valid one and reloaded, pages in use or
\* not, the link up or not.
NextReload ==
    \/ OnConnect(SmallFile)
    \/ \E page_name \in {"a", "b"} : EnteringPage(page_name)
    \/ \E page_name \in {"a", "b"} : LeavingPage(page_name)
    \/ \E file \in {SmallFile, NewFile} : Reinit(file)
    \/ Supervisor(GoodBeacon)

SpecReload == Init /\ [][NextReload]_vars

\* The reader on a link whose datagrams come or fail to come, in any order.
NextLink ==
    \/ OnConnect(SmallFile)
    \/ \E page_name \in {"a", "b"} : EnteringPage(page_name)
    \/ \E page_name \in {"a", "b"} : LeavingPage(page_name)
    \/ \E packet \in {Timeout, GoodBeacon} : Supervisor(packet)
    \/ ReaderTimeout
    \/ \E packet \in {RREFPacket(<<<<0, Flt(1)>>>>), OtherPacket} : ReaderReceive(packet)

SpecLink == Init /\ [][NextLink]_vars

\* A simulator that answers the search for its beacon or does not, and sends
\* nothing else: every receive of the reader fails.  The reader thread keeps
\* running, so an iteration that can be made is made.
NextSilent ==
    \/ OnConnect(SmallFile)
    \/ \E page_name \in {"a", "b"} : EnteringPage(page_name)
    \/ \E page_name \in {"a", "b"} : LeavingPage(page_name)
    \/ \E packet \in {Timeout, GoodBeacon} : Supervisor(packet)
    \/ ReaderTimeout

SpecSilent == Init /\ [][NextSilent]_vars /\ WF_vars(ReaderTimeout)

\* No simulator on the network: every receive of the supervisor's search times
\* out.  The supervisor thread keeps running, so an iteration that can be made
\* is made.
NextAbsent ==
    \/ OnConnect(SmallFile)
    \/ \E page_name \in {"a", "b"} : EnteringPage(page_name)
    \/ \E page_name \in {"a", "b"} : LeavingPage(page_name)
    \/ Reinit(SmallFile)
    \/ Supervisor(Timeout)
    \/ OnShutdown

SpecAbsent == Init /\ [][NextAbsent]_vars /\ WF_vars(Supervisor(Timeout))

\* Values around the interval of the tiny negative values, for one dataref
TinyValues == {Flt(0), Rat(-1, 2000), Rat(-1, 1000), Rat(-1, 500), Flt(1)}

NextTiny ==
    \/ \E file \in {NewFile, NewFileRounded} : OnConnect(file)
    \/ EnteringPage("a")
    \/ LeavingPage("a")
    \/ Supervisor(GoodBeacon)
    \/ \E v \in TinyValues : ReaderReceive(RREFPacket(<<<<0, v>>>>))
    \/ Dispatch

SpecTiny == Init /\ [][NextTiny]_vars

\* main.py onAction for an ExecuteCommand action that sends every value but the
\* empty one to the simulator
onAction_no_keyword(s, action_value, file) ==
    IF action_value = "" THEN s ELSE commandOnce(s, action_value)

\* main.py onAction for an ExecuteCommand action whose data holds action_value
onAction(s, action_value, file) ==
    IF action_value = "" THEN s
    ELSE IF action_value = RELOAD_STATES_FILE_COMMAND THEN reinit(s, file)
    ELSE commandOnce(s, action_value)

\* the values of the command field of the buttons
ActionValues == {"", RELOAD_STATES_FILE_COMMAND, "sim/lights/on", "noop", "NoOp"}

ExecuteCommand(action_value, file) ==
    /\ tpclient.connected
    /\ LET r == onAction(self, action_value, file)
       IN Bounded(r) /\ Commit(r, "onAction", [command |-> action_value, file |-> file])

\* Buttons that execute commands, with the link up or down
NextCommand ==
    \/ OnConnect(SmallFile)
    \/ \E page_name \in {"a", "b"} : EnteringPage(page_name)
    \/ \E page_name \in {"a", "b"} : LeavingPage(page_name)
    \/ \E packet \in {Timeout, GoodBeacon} : Supervisor(packet)
    \/ \E action_value \in ActionValues : ExecuteCommand(action_value, SmallFile)

SpecCommand == Init /\ [][NextCommand]_vars

\* States files that ask roundings, loaded and reloaded
NextRound ==
    \/ \E file \in RoundFiles : OnConnect(file)
    \/ EnteringPage("a")
    \/ LeavingPage("a")
    \/ \E file \in MoreFiles : Reinit(file)

SpecRound == Init /\ [][NextRound]_vars

\* Datagrams of one record for either dataref of page a and of two records for
\* the second, received while the dispatcher works through the queue or waits.
OrderValues == {Flt(0), Flt(1), Flt(2)}
OrderPackets ==
    {RREFPacket(<<<<idx, v>>>>) : idx \in {0, 1}, v \in OrderValues}
        \cup {RREFPacket(<<<<1, v>>, <<1, w>>>>) : v, w \in OrderValues}

NextOrder ==
    \/ OnConnect(SmallFile)
    \/ EnteringPage("a")
    \/ LeavingPage("a")
    \/ Supervisor(GoodBeacon)
    \/ \E packet \in OrderPackets : ReaderReceive(packet)
    \/ Dispatch

SpecOrder == Init /\ [][NextOrder]_vars

\* A step of the dispatcher, by its guard and what it does to the queue: no
\* other step of NextOrder takes an item out of the queue.
DispatchTurn ==
    /\ dref_thread = "alive" /\ udp_queue # <<>>
    /\ \A path \in DOMAIN all_datarefs : all_datarefs[path].updated < MaxUpdated
    /\ udp_queue' = Tail(udp_queue)

\* The dispatcher blocks in udp_queue.get() and runs whenever the queue holds an
\* item: it is slow, never stopped.
SpecDrain == Init /\ [][NextOrder]_vars /\ WF_udp_queue(DispatchTurn)

\* Touch Portal closes the connection: tpclient.isConnected() is False from
\* then on, TPClient.connect() is about to return in main(), and XPClient has
\* not been terminated yet
SinkCloses ==
    /\ tpclient.connected
    /\ Commit([self EXCEPT !.tpclient.connected = FALSE, !.tpclient.closed = TRUE],
              "isConnected", FALSE)

\* Values arriving with the sink connected or not
NextSink ==
    \/ OnConnect(SmallFile)
    \/ EnteringPage("a")
    \/ LeavingPage("a")
    \/ Supervisor(GoodBeacon)
    \/ \E packet \in OrderPackets : ReaderReceive(packet)
    \/ Dispatch
    \/ SinkCloses

SpecSink == Init /\ [][NextSink]_vars

-----------------------------------------------------------------------------
(* The claims *)

\* the count datarefs_to_monitor holds for a path, 0 when it holds none
RefCount(path) == IF Has(datarefs_to_monitor, path) THEN Get(datarefs_to_monitor, path) ELSE 0

\* the pages in use whose datarefs include path
ActivePages(path) ==
    {i \in 1..Len(pages) : page_usages[pages[i][1]] > 0 /\ InSeq(path, pages[i][2])}

\* C1: the index -> path table never holds more than MAX_DREF_COUNT (80) entries.
C1_TableWithinCap == Len(datarefs) <= MAX_DREF_COUNT

\* C2: with the link connected and MAX_DREF_COUNT (80) entries in the table, a
\* subscribe at a frequency above 0 for a path the table does not hold reports
\* failure, sends no frame, assigns no index and leaves the table at 80 entries.
C2_RefusedAtCap ==
    (connected(self) /\ Len(datarefs) = MAX_DREF_COUNT) =>
        \A path \in DOMAIN all_datarefs :
            ~HasValue(datarefs, path) =>
                LET r == _monitor_dataref(self, path, DEFAULT_REQ_FREQUENCY)
                IN /\ ~r.ret
                   /\ r.sent = <<>>
                   /\ r.datarefidx = datarefidx
                   /\ Len(r.datarefs) = MAX_DREF_COUNT

\* C3: between operations that completed, a path is bound in the index -> path
\* table if and only if its count in datarefs_to_monitor is at least 1.  Stated
\* here for the states where the link is connected, the ones in which a path
\* can be subscribed at the simulator at all.
C3_BoundIffCounted ==
    (connected(self) /\ op.exc = "none") =>
        \A path \in DOMAIN all_datarefs : HasValue(datarefs, path) <=> RefCount(path) >= 1

\* C4: the count datarefs_to_monitor holds for a path is the number of pages in
\* use whose datarefs include the path.
C4_CountIsActivePages ==
    \A path \in DOMAIN all_datarefs : RefCount(path) = Cardinality(ActivePages(path))

\* C5: from any state and for any page of the file, entering the page twice and
\* then leaving it twice leaves the set of paths bound in the index -> path table
\* as it was.
C5_EnterEnterLeaveLeave ==
    \A i \in 1..Len(pages) :
        LET p == pages[i][1]
            r == leaving_page(leaving_page(entering_page(entering_page(self, p), p), p), p)
        IN ValueSet(r.datarefs) = ValueSet(datarefs)

\* the dataref the item the dispatcher has just processed was for
Dispatched == Get(datarefs, op.arg[1])
\* the dispatcher has just processed an item that changed its dataref's value
DispatchChanged ==
    /\ op.name = "dataref_listener" /\ op.arg # TERMINATE_QUEUE
    /\ Has(datarefs, op.arg[1])
    /\ all_datarefs[Dispatched].current_value # all_datarefs[Dispatched].previous_value

\* C6: an update_value that changes the value of a dataref calls dataref_changed
\* once on each listener of the dataref, in the order the listeners were added.
C6_EachListenerOnceInOrder ==
    DispatchChanged =>
        notified = [i \in 1..Len(all_datarefs[Dispatched].listeners) |->
                        <<all_datarefs[Dispatched].listeners[i], Dispatched>>]

\* C7: an item taken from the queue whose index the table does not bind is
\* dropped: nothing is raised, no dataref and no state changes, no listener is
\* called, nothing goes to the sink, and the dispatcher goes on to the next item.
C7_UnknownIndexDiscarded ==
    [][(op'.name = "dataref_listener" /\ Head(udp_queue) # TERMINATE_QUEUE
            /\ ~Has(datarefs, Head(udp_queue)[1]))
        => /\ op'.exc = "none"
           /\ UNCHANGED <<all_datarefs, states, datarefs, datarefs_to_monitor>>
           /\ notified' = <<>> /\ tp_log' = <<>>
           /\ dref_thread' = "alive"
           /\ udp_queue' = Tail(udp_queue)]_vars

\* the dispatcher dropped an item for an index that was bound once and is bound
\* no longer, with a path still bound and another item waiting
C7_Witness ==
    /\ op.name = "dataref_listener" /\ op.arg # TERMINATE_QUEUE /\ op.exc = "none"
    /\ ~Has(datarefs, op.arg[1]) /\ op.arg[1] < datarefidx
    /\ Len(datarefs) > 0
    /\ udp_queue # <<>>
    /\ dref_thread = "alive"

\* C8: the dispatcher is still running after any item that is not the terminate
\* sentinel, whatever the processing of the item raised.
C8_ExitsOnlyOnSentinel ==
    (op.name = "dataref_listener" /\ op.arg # TERMINATE_QUEUE) => dref_thread = "alive"

\* the formula of a state cannot be calculated from the values the datarefs hold
FormulaFails(key) == calculate(substitute(self, states[key].formula)).exc # "none"

\* C9: when the formula of a notified state fails, nothing is raised, no
\* stateUpdate goes to the sink for that state, and the other listeners of the
\* dataref are notified all the same.
C9_FormulaFailureContained ==
    \A key \in DOMAIN states :
        (DispatchChanged /\ InSeq(<<key, Dispatched>>, notified) /\ FormulaFails(key)) =>
            /\ op.exc = "none"
            /\ \A i \in 1..Len(tp_log) : tp_log[i] # <<"stateUpdate", states[key].internal_name, "">>
            /\ \A i \in 1..Len(all_datarefs[Dispatched].listeners) :
                   InSeq(<<all_datarefs[Dispatched].listeners[i], Dispatched>>, notified)

\* C10: reinit on a states file that is missing, malformed or of another version
\* than DYNAMIC_STATES_FILE_VERSION changes none of pages, page usages, states,
\* the dataref registry, the counts and the index -> path table, and sends no frame.
C10_ReinitRejectsBadFile ==
    [][(op'.name = "reinit" /\ ~ValidFile(op'.arg))
        => /\ UNCHANGED <<pages, page_usages, states, all_datarefs, datarefs_to_monitor,
                          datarefs, datarefidx>>
           /\ sent' = <<>>]_vars

\* reinit has just rejected a file of another version while a page was in use
\* and its paths were subscribed
C10_Witness ==
    /\ op.name = "reinit" /\ op.arg = OldVersionFile
    /\ \E i \in 1..Len(pages) : page_usages[pages[i][1]] > 0
    /\ Len(datarefs) > 0

\* the state declarations of a states file, over all its pages
Declared(file) ==
    UNION {{file.pages[i].states[j] : j \in 1..Len(file.pages[i].states)} : i \in 1..Len(file.pages)}

\* C11: after a reinit that accepted its file, the state table holds exactly the
\* states the file declares, each with the formula the file gives it, and the
\* registry holds only datarefs those declarations refer to.
C11_ReinitRebuilds ==
    (op.name = "reinit" /\ op.exc = "none" /\ ValidFile(op.arg)) =>
        /\ DOMAIN states = {StateKey(config) : config \in Declared(op.arg)}
        /\ \A config \in Declared(op.arg) :
               StateKey(config) \in DOMAIN states
                   => states[StateKey(config)].formula = config.formula
        /\ DOMAIN all_datarefs \subseteq
               UNION {ValueSet([i \in 1..Len(extract_datarefs(config.formula)) |->
                                    <<i, extract_datarefs(config.formula)[i]>>]) :
                        config \in Declared(op.arg)}

\* the fields of an XPlane object
Fields(s) ==
    <<s.beacon_data, s.should_not_connect, s.connect_thread, s.all_datarefs,
      s.datarefs_to_monitor, s.datarefidx, s.datarefs, s.states, s.pages, s.page_usages,
      s.udp_queue, s.udp_thread, s.dref_thread, s.no_upd_enqueue, s.total_to>>

C13_TerminateStopsAllTasks ==
    op.name = "terminate" =>
        /\ dref_thread # "alive"
        /\ udp_thread # "alive" /\ no_upd_enqueue # "clear"
        /\ connect_thread # "alive" /\ should_not_connect # "clear"

\* the object with each of its running tasks replaced by one that never ends
Stalled(s) ==
    [s EXCEPT !.dref_thread = IF @ = "alive" THEN "stalled" ELSE @,
              !.udp_thread = IF @ = "alive" THEN "stalled" ELSE @,
              !.connect_thread = IF @ = "alive" THEN "stalled" ELSE @]

\* C14: stop() and disconnect() come back from every join they make, even when
\* the task they join never ends.
C14_JoinsBounded ==
    /\ stop(Stalled(self)).exc # "blocked"
    /\ disconnect(Stalled(self)).exc # "blocked"

\* the reader has declared the simulator lost in the step
DeclaredLost ==
    /\ connected(self) /\ beacon_data' = EmptyFcn
    /\ tp_log' = << <<"stateUpdate", STATE_XP_CONNECTED, INT_FALSE>> >>
    /\ no_upd_enqueue' # "clear" /\ udp_thread' = "dead"

\* C15: a receive that fails adds one to the reader's count and a datagram
\* received puts it back to zero; the reader declares the simulator lost in an
\* iteration if and only if the iteration brings the count to MAX_TIMEOUT_COUNT
\* (5), and an iteration that does not declare it lost leaves the link, the
\* reader and its stop flag as they were and pushes nothing.
C15_LostAtFiveTimeouts ==
    [][op'.name = "upd_enqueue"
        => /\ total_to' = IF op'.arg = Timeout THEN total_to + 1 ELSE 0
           /\ DeclaredLost <=> total_to' = MAX_TIMEOUT_COUNT
           /\ DeclaredLost \/ (UNCHANGED <<beacon_data, no_upd_enqueue, udp_thread>> /\ tp_log' = <<>>)]_vars

\* the reader has declared the simulator lost on a link that had carried RREF
\* answers before
C15_Witness ==
    /\ op.name = "upd_enqueue" /\ op.arg = Timeout
    /\ total_to = MAX_TIMEOUT_COUNT
    /\ ~connected(self) /\ udp_thread = "dead"
    /\ udp_queue # <<>>

\* C16: on a link that is connected and whose simulator sends nothing any more,
\* whatever the number of datarefs subscribed, the reader comes to declare the
\* simulator lost: XPlaneConnected is pushed as "0", the reader has ended, and the
\* supervisor is running, not connected, searching for the beacon.
C16_SilenceEndsTheSession ==
    (connected(self) /\ udp_thread = "alive")
        ~> /\ ~connected(self)
           /\ op.name = "upd_enqueue"
           /\ tp_log = << <<"stateUpdate", STATE_XP_CONNECTED, INT_FALSE>> >>
           /\ udp_thread = "dead"
           /\ connect_thread = "alive" /\ should_not_connect = "clear"

\* C17: when the supervisor finds the beacon again after a session that was lost
\* (the dispatcher of that session exists) and start() has run, the supervisor is
\* still running, and every path datarefs_to_monitor counts is bound in the index
\* -> path table and was sent an RREF frame with its frequency.
C17_ResubscribedOnReconnect ==
    [][(op'.name = "connect_loop" /\ dref_thread # "None" /\ "IP" \in DOMAIN beacon_data')
        => /\ connect_thread' = "alive"
           /\ \A i \in 1..Len(datarefs_to_monitor') :
                 LET path == datarefs_to_monitor'[i][1]
                 IN /\ HasValue(datarefs', path)
                    /\ \E k \in 1..Len(sent') :
                          sent'[k] = RREF(all_datarefs'[path].update_frequency,
                                          KeyOf(datarefs', path), path)]_vars

\* the datagram is a whole beacon of X-Plane itself, of a version the plugin knows
Accepted(packet) ==
    /\ packet.kind = "data"
    /\ packet.header = "BECN" /\ packet.complete
    /\ packet.major = 1 /\ packet.minor <= 2 /\ packet.app = 1

C19_SearchesUntilStopped ==
    /\ [](should_not_connect = "clear" =>
            /\ connect_thread = "alive"
            /\ ~connected(self)
            /\ udp_thread = "None" /\ dref_thread = "None" /\ no_upd_enqueue = "None")
    /\ [](\A i \in 1..Len(tp_log) : tp_log[i] # <<"stateUpdate", STATE_XP_CONNECTED, INT_TRUE>>)
    /\ ((should_not_connect = "clear" /\ op.name # "connect_loop")
            ~> (op.name = "connect_loop" \/ should_not_connect # "clear"))

\* the supervisor has searched in vain again after a page was entered
C19_Witness ==
    /\ op.name = "connect_loop" /\ op.arg = Timeout /\ op.exc = "none"
    /\ connect_thread = "alive" /\ should_not_connect = "clear"
    /\ datarefs_to_monitor # <<>>

\* C20: the next-index counter never goes down; every index the table binds is
\* below the counter; a binding that a step adds has an index at or above the
\* counter as it was before the step, so above every index assigned before; and
\* an index bound before and after a step is bound to the same path.  This holds
\* across unsubscribe, loss of the link, reconnection and reinit.
C20_IndicesNeverReused ==
    [][/\ datarefidx' >= datarefidx
       /\ \A i \in 1..Len(datarefs') :
            /\ datarefs'[i][1] < datarefidx'
            /\ \A j \in 1..Len(datarefs') : datarefs'[j][1] = datarefs'[i][1] => j = i
            /\ IF Has(datarefs, datarefs'[i][1])
               THEN Get(datarefs, datarefs'[i][1]) = datarefs'[i][2]
               ELSE datarefs'[i][1] >= datarefidx]_vars

\* a page has been entered whose paths were given new indices above indices
\* that had been assigned and released before
C20_Witness ==
    /\ op.name = "entering_page" /\ sent # <<>>
    /\ Len(datarefs) > 0
    /\ \A i \in 1..Len(datarefs) : datarefs[i][1] > 0

\* the value the dispatcher stores for a value of the queue
Normalized(value) == IF RLt(value, Flt(0)) /\ RLt(Rat(-1, 1000), value) THEN Flt(0) ELSE value

\* C21: the reader puts the records of a datagram at the tail of the queue in
\* the order they have in the datagram; the dispatcher takes the item at the head
\* and applies it to the dataref its index is bound to, notifying listeners for
\* that dataref only; nothing else touches the queue.  So the values of a dataref
\* are applied, and its listeners notified, in the order of arrival, however the
\* iterations of the reader and of the dispatcher interleave.
C21_AppliedInArrivalOrder ==
    [][/\ op'.name = "upd_enqueue" =>
            udp_queue' = udp_queue \o (IF op'.arg.kind = "data" /\ op'.arg.header = "RREF,"
                                       THEN op'.arg.records ELSE <<>>)
       /\ op'.name = "dataref_listener" =>
            /\ udp_queue # <<>> /\ op'.arg = Head(udp_queue)
            /\ udp_queue' = Tail(udp_queue)
            /\ (op'.arg # TERMINATE_QUEUE /\ Has(datarefs, op'.arg[1])) =>
                  LET path == Get(datarefs, op'.arg[1])
                  IN /\ all_datarefs'[path].raw_current_value = Normalized(op'.arg[2])
                     /\ all_datarefs'[path].raw_previous_value = all_datarefs[path].raw_current_value
                     /\ \A i \in 1..Len(notified') : notified'[i][2] = path
       /\ op'.name \notin {"upd_enqueue", "dataref_listener"} => UNCHANGED udp_queue]_vars

\* the dispatcher has applied a record and notified the listeners of its dataref
\* while a later record with another value for the same dataref waits
C21_Witness ==
    /\ op.name = "dataref_listener" /\ op.exc = "none" /\ notified # <<>>
    /\ Len(udp_queue) = 1
    /\ udp_queue[1][1] = op.arg[1] /\ udp_queue[1][2] # op.arg[2]

\* a decoded pair is in the queue and the dispatcher has work it may still count
Waiting ==
    /\ udp_queue # <<>> /\ Head(udp_queue) # TERMINATE_QUEUE
    /\ \A path \in DOMAIN all_datarefs : all_datarefs[path].updated < MaxUpdated

\* C22: no decoded value is lost between the reader and the dispatcher: the reader
\* puts every record of every RREF datagram in the queue, whatever the length of
\* the queue, and every pair in the queue is eventually taken out by the
\* dispatcher.
C22_NothingLost ==
    /\ [][(op'.name = "upd_enqueue" /\ op'.arg.kind = "data" /\ op'.arg.header = "RREF,")
            => udp_queue' = udp_queue \o op'.arg.records]_vars
    /\ [](Waiting => <>(~Waiting))

\* the stateUpdate calls of the last handler for the state with this identifier
Pushes(log, id) == SelectSeq(log, LAMBDA e : e[1] = "stateUpdate" /\ e[2] = id)

\* C23: a TPState pushes its value only when it differs from the value it pushed
\* last: the first push of a dispatcher iteration for a state differs from the
\* state's previous_value, two pushes of one iteration for one state differ, and
\* previous_value is the value pushed last, changed by nothing but a push.
C23_NoRepeatedPush ==
    [][\A key \in DOMAIN states \cap DOMAIN states' :
          LET pushed == Pushes(tp_log', states[key].internal_name)
          IN /\ (op'.name = "dataref_listener" /\ pushed # <<>>) =>
                   /\ pushed[1][3] # states[key].previous_value
                   /\ \A i \in 1..(Len(pushed) - 1) : pushed[i][3] # pushed[i + 1][3]
                   /\ states'[key].previous_value = pushed[Len(pushed)][3]
             /\ (op'.name # "dataref_listener" \/ pushed = <<>>) =>
                   (op'.name = "init" \/ states'[key].previous_value = states[key].previous_value)]_vars

\* a state was notified of a changed dataref and pushed nothing, its formatted
\* value being the one it pushed before
C23_Witness ==
    /\ op.name = "dataref_listener" /\ op.exc = "none"
    /\ \E i \in 1..Len(notified) :
          /\ states[notified[i][1]].previous_value # NoneStr
          /\ Pushes(tp_log, states[notified[i][1]].internal_name) = <<>>

\* C24: the dispatcher notifies listeners only of a path whose count in
\* datarefs_to_monitor is at least 1 when the value is processed; a value for a
\* bound path that no page in use references is stored, with no listener called
\* and no stateUpdate.
C24_NotifiedOnlyWhileReferenced ==
    [][(op'.name = "dataref_listener" /\ op'.arg # TERMINATE_QUEUE /\ Has(datarefs, op'.arg[1])) =>
          LET path == Get(datarefs, op'.arg[1])
          IN /\ notified' # <<>> => RefCount(path) >= 1
             /\ ActivePages(path) = {} =>
                   /\ all_datarefs'[path].raw_current_value = Normalized(op'.arg[2])
                   /\ notified' = <<>>
                   /\ tp_log' = <<>>]_vars

\* the states a file declares, and the roundings asked for path by those of
\* them that are not registered yet (a TPState is built for these only)
FileStates(file) ==
    UNION {{file.pages[i].states[j] : j \in 1..Len(file.pages[i].states)} : i \in 1..Len(file.pages)}
Asked(file, registered, path) ==
    {config.rounding[1] : config \in
        {c \in FileStates(file) : /\ StateKey(c) \notin registered
                                  /\ c.rounding # None
                                  /\ InSeq(path, extract_datarefs(c.formula))}}
MaxOfSet(S) == CHOOSE m \in S : \A n \in S : n <= m

\* C25: the rounding of a dataref created without one is the largest of the
\* roundings asked for it so far, 0 and negative ones included; asking none
\* (null) changes nothing, and the rounding is null exactly when none was ever
\* asked.  Step by step: loading a file leaves each dataref with the largest of
\* the rounding it held and those the new states ask, and nothing else changes it.
C25_RoundingIsLargestAsked ==
    [][\A path \in DOMAIN all_datarefs' :
          LET held == IF path \in DOMAIN all_datarefs THEN all_datarefs[path].rounding ELSE None
              asked == IF op'.name \in {"init", "reinit"}
                       THEN Asked(op'.arg, DOMAIN states, path) ELSE {}
              all == asked \cup (IF held = None THEN {} ELSE {held[1]})
          IN all_datarefs'[path].rounding = IF all = {} THEN None ELSE <<MaxOfSet(all)>>]_vars

\* a file was reloaded whose new state asks -1 decimals for a dataref that
\* holds 0 decimals from two states, one of which asked none: it still holds 0
C25_Witness ==
    /\ op.name = "reinit" /\ op.arg = MoreFile(<<-1>>)
    /\ 1 \in DOMAIN all_datarefs /\ all_datarefs[1].rounding = <<0>>
    /\ 2 \in DOMAIN all_datarefs /\ all_datarefs[2].rounding = None

\* C26: a value v with -0.001 < v < 0 received for a bound index is stored as
\* 0.0, raw and rounded, so that a dataref that held 0.0 registers no change and
\* no listener is notified; a value at or below -0.001, or at or above 0, is
\* stored as it came.
C26_TinyNegativeIsZero ==
    [][(op'.name = "dataref_listener" /\ op'.arg # TERMINATE_QUEUE /\ Has(datarefs, op'.arg[1])) =>
          LET path == Get(datarefs, op'.arg[1])
              v == op'.arg[2]
          IN IF RLt(Rat(-1, 1000), v) /\ RLt(v, Flt(0))
             THEN /\ all_datarefs'[path].raw_current_value = Flt(0)
                  /\ all_datarefs'[path].current_value = Flt(0)
                  /\ all_datarefs[path].current_value = Flt(0) =>
                        /\ all_datarefs'[path].changed = all_datarefs[path].changed
                        /\ notified' = <<>> /\ tp_log' = <<>>
             ELSE /\ all_datarefs'[path].raw_current_value = v
                  /\ all_datarefs[path].rounding = None => all_datarefs'[path].current_value = v]_vars

\* -0.0005 was dispatched for a dataref of a page in use that held 0.0: it
\* holds 0.0 and nobody was notified
C26_Witness ==
    /\ op.name = "dataref_listener" /\ op.arg = <<0, Rat(-1, 2000)>>
    /\ Has(datarefs, 0) /\ RefCount(Get(datarefs, 0)) >= 1
    /\ all_datarefs[Get(datarefs, 0)].previous_value = Flt(0)
    /\ all_datarefs[Get(datarefs, 0)].current_value = Flt(0)
    /\ notified = <<>>

\* the CMND frames among the frames a handler sent
Commands(frames) == SelectSeq(frames, LAMBDA f : f.kind = "CMND")

\* C27: an ExecuteCommand action whose value is the reserved RELOAD_STATES_FILE
\* reloads the states file (every page is out of use afterwards) and sends no
\* CMND frame; an empty value sends nothing and changes nothing; any other value
\* sends at most one CMND frame and nothing else, and sends it only if the link
\* is connected.
C27_CommandOrReload ==
    [][op'.name = "onAction" =>
          IF op'.arg.command = "" THEN sent' = <<>> /\ op'.exc = "none" /\ pages' = pages /\ page_usages' = page_usages
          ELSE IF op'.arg.command = "RELOAD_STATES_FILE"
               THEN /\ Commands(sent') = <<>>
                    /\ op'.exc = "none" => \A name \in DOMAIN page_usages' : page_usages'[name] = 0
               ELSE /\ sent' = Commands(sent') /\ Len(sent') <= 1
                    /\ sent' # <<>> => (connected(self) /\ sent'[1].path = op'.arg.command)
                    /\ pages' = pages /\ page_usages' = page_usages]_vars

\* the reserved value came with the link up and page a in use: the page was
\* unloaded (its unsubscribe frames were sent) and no command was sent
C27_Witness ==
    /\ op.name = "onAction" /\ op.arg.command = "RELOAD_STATES_FILE" /\ op.exc = "none"
    /\ \E i \in 1..Len(sent) : sent[i].kind = "RREF" /\ sent[i].freq = 0
    /\ page_usages["a"] = 0

\* C28: while the sink is not connected no stateUpdate is called, neither for the
\* connection states nor for the value of a TPState, and a dispatcher iteration
\* that ends normally leaves the dispatcher running.
C28_NoPushWhileSinkDown ==
    [][(~tpclient.connected /\ ~tpclient'.connected) =>
          /\ \A i \in 1..Len(tp_log') : tp_log'[i][1] # "stateUpdate"
          /\ (op'.name = "dataref_listener" /\ op'.exc = "none" /\ op'.arg # TERMINATE_QUEUE)
                => dref_thread' = "alive"]_vars

\* the count a map of counts holds for a path, and the RREF frames sent for it
CountIn(counts, path) == IF Has(counts, path) THEN Get(counts, path) ELSE 0
Subscribes(frames, path) ==
    Len(SelectSeq(frames, LAMBDA f : f.kind = "RREF" /\ f.path = path /\ f.freq > 0))
Unsubscribes(frames, path) ==
    Len(SelectSeq(frames, LAMBDA f : f.kind = "RREF" /\ f.path = path /\ f.freq = 0))

\* C29: with the link connected, entering or leaving a page sends a subscribe
\* frame (frequency above 0) for a path exactly when its count goes from 0 to 1,
\* and an unsubscribe frame (frequency 0) exactly when its count goes from 1 to
\* 0; a count that moves between values of 1 and more sends no frame.
C29_FramesAtCountEdges ==
    [][(op'.name \in {"entering_page", "leaving_page"} /\ connected(self)) =>
          \A path \in DOMAIN all_datarefs :
             LET before == CountIn(datarefs_to_monitor, path)
                 after == CountIn(datarefs_to_monitor', path)
             IN /\ Subscribes(sent', path) = IF before = 0 /\ after = 1 THEN 1 ELSE 0
                /\ Unsubscribes(sent', path) = IF before = 1 /\ after = 0 THEN 1 ELSE 0]_vars

\* what the page handlers work on besides the usage counts
Monitoring == <<datarefs_to_monitor, datarefs, datarefidx, all_datarefs, pages, states>>

-----------------------------------------------------------------------------
(* The page handlers as the worker threads of the Touch Portal client run them:
   the code takes no lock, so two handlers interleave between any two of their
   accesses to the shared fields.  A handler's position is pc[t]: at is the
   statement it runs next, todo the paths its loop has not visited, path, freq and
   found the locals of the call it is in, back the loop the call returns to. *)

\* a step's outcome: the object, and the position of the thread that took it
At(s, l) == [s |-> s, l |-> l]

\* the return of _monitor_dataref to the loop that called it
monitor_return(s, l) ==
    At(s, [l EXCEPT !.at = l.back, !.todo = IF l.back = "add" THEN Tail(@) ELSE @])

\* _load_page: if self.page_usages[page_name] == 0
load_test(s, l) ==
    IF s.page_usages[l.page] = 0
    THEN At(s, [l EXCEPT !.at = "add", !.todo = Get(s.pages, l.page)])
    ELSE At(s, [l EXCEPT !.at = "incr"])

\* _load_page: self.page_usages[page_name] = self.page_usages[page_name] + 1
load_incr(s, l) == At([s EXCEPT !.page_usages[l.page] = @ + 1], Idle)

\* add_datarefs_to_monitor: for d in ...: if d.path not in self.datarefs_to_monitor.keys()
add_test(s, l) ==
    IF l.todo = <<>> THEN At(s, [l EXCEPT !.at = "incr"])
    ELSE At(s, [l EXCEPT !.at = "add_set", !.path = Head(l.todo),
                         !.found = Has(s.datarefs_to_monitor, Head(l.todo))])

\* add_datarefs_to_monitor: the branch the test chose, up to the call of
\* _monitor_dataref
add_set(s, l) ==
    IF ~l.found
    THEN LET s0 == [s EXCEPT !.datarefs_to_monitor = Put(@, l.path, 1)]
         IN IF connected(s0)
            THEN At(s0, [l EXCEPT !.at = "mon", !.back = "add",
                                  !.freq = update_frequency(s0, l.path)])
            ELSE At(s0, [l EXCEPT !.at = "add", !.todo = Tail(@)])
    ELSE IF ~Has(s.datarefs_to_monitor, l.path) THEN At(Raise(s, "KeyError"), Idle)
    ELSE At([s EXCEPT !.datarefs_to_monitor = Put(@, l.path, Get(@, l.path) + 1)],
            [l EXCEPT !.at = "add", !.todo = Tail(@)])

\* _monitor_dataref: if not self.connected ... if path in self.datarefs.values()
monitor_test(s, l) ==
    IF ~connected(s) THEN monitor_return(s, l)
    ELSE At(s, [l EXCEPT !.at = "mon_act", !.found = HasValue(s.datarefs, l.path)])

\* _monitor_dataref: the branch the test chose, and the send
monitor_act(s, l) ==
    IF l.found
    THEN IF ~HasValue(s.datarefs, l.path) THEN At(Raise(s, "ValueError"), Idle)
         ELSE LET idx == KeyOf(s.datarefs, l.path)
                  s1 == IF l.freq = 0 THEN [s EXCEPT !.datarefs = Del(@, idx)] ELSE s
                  s2 == sendto(s1, RREF(l.freq, idx, l.path))
              IN IF Ok(s2) THEN monitor_return(s2, l) ELSE At(s2, Idle)
    ELSE IF l.freq # 0 /\ Len(s.datarefs) > MAX_DREF_COUNT THEN monitor_return(s, l)
    ELSE LET idx == s.datarefidx
             s1 == [s EXCEPT !.datarefs = Put(@, idx, l.path), !.datarefidx = @ + 1]
             s2 == sendto(s1, RREF(l.freq, idx, l.path))
         IN IF Ok(s2) THEN monitor_return(s2, l) ELSE At(s2, Idle)

\* _unload_page: the usage test and decrement, and remove_datarefs_to_monitor's
\* test of the connection
unload_test(s, l) ==
    IF s.page_usages[l.page] > 0
    THEN LET s0 == [s EXCEPT !.page_usages[l.page] = @ - 1]
         IN IF s0.page_usages[l.page] # 0 THEN At(s0, Idle)
            ELSE IF ~connected(s0) /\ Len(s0.datarefs_to_monitor) > 0 THEN At(s0, Idle)
            ELSE At(s0, [l EXCEPT !.at = "rem", !.todo = Get(s0.pages, l.page)])
    ELSE At(s, Idle)

\* remove_datarefs_to_monitor: for d in ...: if d.path in ...: if ...[d.path] == 1
rem_test(s, l) ==
    IF l.todo = <<>> THEN At(s, Idle)
    ELSE IF ~Has(s.datarefs_to_monitor, Head(l.todo)) THEN At(s, [l EXCEPT !.todo = Tail(@)])
    ELSE IF Get(s.datarefs_to_monitor, Head(l.todo)) = 1
         THEN At(s, [l EXCEPT !.at = "mon", !.back = "rem_dec", !.path = Head(l.todo), !.freq = 0])
         ELSE At(s, [l EXCEPT !.at = "rem_dec", !.path = Head(l.todo)])

\* remove_datarefs_to_monitor: the decrement of the count, and its deletion at 0
rem_dec(s, l) ==
    IF ~Has(s.datarefs_to_monitor, l.path) THEN At(Raise(s, "KeyError"), Idle)
    ELSE At(remove_count(s, l.path), [l EXCEPT !.at = "rem", !.todo = Tail(@)])

\* terminate: the test of the connection, and stop()
terminate_stop(s, l) ==
    IF ~connected(s)
    THEN At(IF connection_monitor_running(s) THEN disconnect(s) ELSE s, Idle)
    ELSE LET s1 == stop(s)
         IN IF Ok(s1) THEN At(s1, [l EXCEPT !.at = "cleanup"]) ELSE At(s1, Idle)

\* terminate: cleanup(), delete_all_datarefs(), and disconnect() up to its
\* update of the connection state
terminate_cleanup(s, l) ==
    LET s1 == Then(cleanup(s), delete_all_datarefs)
        s2 == Then(s1, cleanup)
    IN IF ~Ok(s1) THEN At(s1, Idle)
       ELSE IF s1.should_not_connect = "None" THEN At(disconnect(s1), Idle)
       ELSE IF ~Ok(s2) THEN At(s2, Idle)
       ELSE At(update_state([s2 EXCEPT !.beacon_data = EmptyFcn], STATE_XP_CONNECTED, INT_FALSE),
               [l EXCEPT !.at = "join"])

\* disconnect from should_not_connect.set() on, and the end of main.py onShutdown
terminate_join(s, l) ==
    LET s1 == update_state(
                  join([s EXCEPT !.connect_thread = IF @ = "alive" THEN "dead" ELSE @,
                                 !.should_not_connect = "None"],
                       "connect_thread", <<RECONNECT_TIMEOUT>>),
                  STATE_XP_CONNMON, INT_FALSE)
    IN At([s1 EXCEPT !.tpclient.connected = FALSE, !.tpclient.closed = TRUE], Idle)

\* the statement a handler thread at l runs next
HandlerCode(s, l) ==
    CASE l.at = "load" -> load_test(s, l)
      [] l.at = "incr" -> load_incr(s, l)
      [] l.at = "add" -> add_test(s, l)
      [] l.at = "add_set" -> add_set(s, l)
      [] l.at = "mon" -> monitor_test(s, l)
      [] l.at = "mon_act" -> monitor_act(s, l)
      [] l.at = "unload" -> unload_test(s, l)
      [] l.at = "rem" -> rem_test(s, l)
      [] l.at = "rem_dec" -> rem_dec(s, l)
      [] l.at = "terminate" -> terminate_stop(s, l)
      [] l.at = "cleanup" -> terminate_cleanup(s, l)
      [] l.at = "join" -> terminate_join(s, l)

\* main.py onAction EnteringPage on worker thread t: entering_page's test of the name
HandlerEnter(t, page_name) ==
    /\ tpclient.connected /\ pc[t].at = "idle" /\ Has(pages, page_name)
    /\ page_usages[page_name] < MaxUsage
    /\ CommitAt(self, "enter", <<t, page_name>>,
                [pc EXCEPT ![t] = [Idle EXCEPT !.at = "load", !.page = page_name]])

\* main.py onAction LeavingPage on worker thread t: leaving_page's test of the name
HandlerLeave(t, page_name) ==
    /\ tpclient.connected /\ pc[t].at = "idle" /\ Has(pages, page_name)
    /\ CommitAt(self, "leave", <<t, page_name>>,
                [pc EXCEPT ![t] = [Idle EXCEPT !.at = "unload", !.page = page_name]])

\* worker thread t runs its next statement; an exception ends its handler
HandlerStep(t) ==
    /\ pc[t].at # "idle"
    /\ LET r == HandlerCode(self, pc[t])
       IN /\ Bounded(r.s)
          /\ \A p \in DOMAIN r.s.page_usages : r.s.page_usages[p] <= MaxUsage
          /\ CommitAt(r.s, pc[t].at, <<t, pc[t].page>>, [Tasks(pc, r.s) EXCEPT ![t] = r.l])

\* Two handler threads that enter and leave page a while the link is up
NextRace ==
    \/ OnConnect(SmallFile)
    \/ Supervisor(GoodBeacon)
    \/ \E t \in Handlers : connected(self) /\ HandlerEnter(t, "a")
    \/ \E t \in Handlers : connected(self) /\ HandlerLeave(t, "a")
    \/ \E t \in Handlers : HandlerStep(t)

SpecRace == Init /\ [][NextRace]_vars

\* C31: the index -> path table is a bijection in every state: no path is bound
\* under two indices (and no index to two paths)
C31_TableIsBijection ==
    \A i, j \in 1..Len(datarefs) :
       (datarefs[i][1] = datarefs[j][1] \/ datarefs[i][2] = datarefs[j][2]) => i = j

\* C32: the table is accessed under mutual exclusion: while a handler thread is
\* inside _monitor_dataref, between its lookup of the path and its update of the
\* table, no other thread changes the table
C32_TableAccessExclusive ==
    [][\A t \in Handlers :
          (pc[t].at = "mon_act" /\ pc'[t] = pc[t]) => datarefs' = datarefs]_vars

-----------------------------------------------------------------------------
(* The calculator on its own: RPC(expression).calculate() for the expressions of
   up to MaxTokens tokens over a few literals, the operators of the claims and a
   word that is no operator *)

MaxTokens == 3

Literals == {Flt(-3), Flt(0), Flt(2), Flt(7), Rat(1, 2)}

Operators == {"+", "-", "/", "%", "mod"}

Symbols == {Num(q) : q \in Literals} \cup {Tok(o) : o \in Operators \cup {"foo"}}

Expressions == UNION {[1..n -> Symbols] : n \in 1..MaxTokens}

\* TPState.value: RPC(expr).calculate() on a new RPC object; op records the tokens
\* and the outcome
Calculate(tokens) ==
    /\ op.name = "__init__"
    /\ LET r == calculate(tokens)
       IN Commit([self EXCEPT !.exc = r.exc], "calculate", [tokens |-> tokens, val |-> r.val])

NextCalc == \E tokens \in Expressions : Calculate(tokens)

SpecCalc == Init /\ [][NextCalc]_vars

\* C33: "a b -", "a b /" and "a b %" take the top of the stack, b, as the right
\* operand: the results are a - b, a / b and a mod b (for / and %, b is not 0).
\* The results are stated by cross-multiplication; a mod b is the v with
\* a = k * b + v for an integer k, v = 0 or of the sign of b, and |v| < |b|.
C33_TopIsRightOperand ==
    (op.name = "calculate" /\ Len(op.arg.tokens) = 3
       /\ op.arg.tokens[1][1] = "num" /\ op.arg.tokens[2][1] = "num"
       /\ op.arg.tokens[3] \in {Tok("-"), Tok("/"), Tok("%"), Tok("mod")}
       /\ (op.arg.tokens[3] # Tok("-") => op.arg.tokens[2][2][1] # 0)) =>
    LET a == op.arg.tokens[1][2]
        b == op.arg.tokens[2][2]
        o == op.arg.tokens[3][2]
        v == op.arg.val
    IN /\ op.exc = "none" /\ v[2] > 0
       /\ o = "-" => v[1] * a[2] * b[2] = (a[1] * b[2] - b[1] * a[2]) * v[2]
       /\ o = "/" => v[1] * b[1] * a[2] = a[1] * b[2] * v[2]
       /\ o \in {"%", "mod"} =>
             /\ \E k \in -20..20 :
                   (a[1] * b[2] - k * b[1] * a[2]) * v[2] = v[1] * a[2] * b[2]
             /\ v[1] = 0 \/ (v[1] > 0 <=> b[1] > 0)
             /\ Abs(v[1]) * b[2] < Abs(b[1]) * v[2]

\* "2 7 -", "2 7 /" or "2 7 %" was evaluated: operands that differ, so that the
\* order of the operands shows in the result
C33_Witness ==
    /\ op.name = "calculate" /\ op.exc = "none"
    /\ op.arg.tokens \in {<<Num(Flt(2)), Num(Flt(7)), Tok(o)>> : o \in {"-", "/", "%"}}
    /\ op.arg.val \in {Flt(-5), Rat(2, 7), Flt(2)}

\* the tokens that are neither a number nor an operator
Unknown(token) == token[1] = "tok" /\ token[2] \notin Operators

\* C34: the evaluation fails when nothing is left on the stack at the end and when
\* it divides by zero, and a token that is no operator is skipped: the outcome is
\* that of the expression without it
C34_FailsOnEmptyOrZero ==
    op.name = "calculate" =>
       LET e == op.arg.tokens
           known == SelectSeq(e, LAMBDA token : ~Unknown(token))
           final == RPCRun([stack |-> <<>>, exc |-> "none"], known)
       IN /\ (final.exc = "none" /\ final.stack = <<>>) => (op.exc = "IndexError" /\ op.arg.val = None)
          /\ (Len(e) = 3 /\ e[1][1] = "num" /\ e[2] = Num(Flt(0))
                /\ e[3] \in {Tok("/"), Tok("%"), Tok("mod")}) =>
                (op.exc = "ZeroDivisionError" /\ op.arg.val = None)
          /\ op.exc # "none" <=> op.arg.val = None
          /\ [val |-> op.arg.val, exc |-> op.exc] = calculate(known)

\* an expression of unknown words only was evaluated and failed on the empty
\* stack
C34_Witness ==
    /\ op.name = "calculate" /\ op.exc = "IndexError"
    /\ op.arg.tokens = <<Tok("foo"), Tok("foo")>>

-----------------------------------------------------------------------------
(* States files whose pages share states: each of the pages a and b declares one
   or two of the three states of the small file *)

SharedStates ==
    {StateConfig("Ratio", <<Ref(1), Ref(2), Tok("/")>>, "int"), StateConfig("Alt", <<Ref(1)>>, "int"),
     StateConfig("On", <<Ref(2)>>, "boolean")}

SharedLists == UNION {[1..n -> SharedStates] : n \in 1..2}

SharedFile(states_a, states_b) ==
    [exists |-> TRUE, json_ok |-> TRUE, version |-> 4, pages |-> <<
        [name |-> "a", states |-> states_a], [name |-> "b", states |-> states_b] >>]

SharedFiles == {SharedFile(states_a, states_b) : states_a, states_b \in SharedLists}

NextShared ==
    \/ \E file \in SharedFiles : OnConnect(file)
    \/ EnteringPage("b")
    \/ LeavingPage("b")

SpecShared == Init /\ [][NextShared]_vars

\* the members of a sequence
ValueSetOf(seq) == {seq[i] : i \in 1..Len(seq)}

\* the declarations of the states of a file, over all its pages
Declarations(file) == UNION {{page.states[i] : i \in 1..Len(page.states)} : page \in {file.pages[k] : k \in 1..Len(file.pages)}}

\* C35: after init, a state declared on several pages is instantiated once: one
\* createState for its internal name, and one listener entry for it on each
\* dataref of its formula (and on no other); and the datarefs of a page are those
\* of the formulas of all the states declared on the page, whichever page a
\* state was created for
C35_OncePerNameUnionPerPage ==
    (op.name = "init" /\ op.exc = "none") =>
       /\ \A config \in Declarations(op.arg) :
             LET key == mkintname(config.name)
                 used == {q \in DOMAIN all_datarefs : InSeq(q, extract_datarefs(config.formula))}
             IN /\ Cardinality({i \in 1..Len(tp_log) : tp_log[i][1] = "createState" /\ tp_log[i][2] = key}) = 1
                /\ key \in DOMAIN states
                /\ \A q \in DOMAIN all_datarefs :
                      Cardinality({i \in 1..Len(all_datarefs[q].listeners) : all_datarefs[q].listeners[i] = key})
                         = IF q \in used THEN 1 ELSE 0
                /\ \A i \in 1..Len(extract_datarefs(config.formula)) :
                      extract_datarefs(config.formula)[i] \in DOMAIN all_datarefs
       /\ \A k \in 1..Len(op.arg.pages) :
             LET page == op.arg.pages[k]
             IN /\ Has(pages, page.name)
                /\ ValueSetOf(Get(pages, page.name)) =
                      UNION {ValueSetOf(extract_datarefs(page.states[i].formula)) : i \in 1..Len(page.states)}
                /\ Cardinality(ValueSetOf(Get(pages, page.name))) = Len(Get(pages, page.name))

\* the file declares Alt on page a, and Ratio and then Alt on page b: Alt was
\* created for page a, and page b holds the datarefs of both its states
C35_Witness ==
    /\ op.name = "init" /\ op.exc = "none"
    /\ Len(op.arg.pages[1].states) = 1 /\ op.arg.pages[1].states[1].name = "Alt"
    /\ Len(op.arg.pages[2].states) = 2
    /\ op.arg.pages[2].states[1].name = "Ratio" /\ op.arg.pages[2].states[2].name = "Alt"
    /\ Get(pages, "a") = <<1>> /\ Get(pages, "b") = <<1, 2>>
    /\ Len(tp_log) >= 2

\* C36: suppress_monitoring_of_all_datarefs_to_monitor called with the link
\* connected and at least one path bound (terminate calls it first, through stop)
\* sends the frame with frequency 0 of every bound path and returns normally, the
\* table empty
C36_SuppressUnbindsAll ==
    [][(op'.name = "terminate" /\ connected(self) /\ Len(datarefs) >= 1) =>
          /\ op'.exc = "none"
          /\ datarefs' = <<>>
          /\ \A i \in 1..Len(datarefs) :
                \E k \in 1..Len(sent') : sent'[k] = RREF(0, datarefs[i][1], datarefs[i][2])]_vars

\* C37: an unsubscribe of a path that has no binding leaves the table and the
\* counter of indices as they are.  leaving_page only unsubscribes, so after it
\* the counter is the same and every binding of the table was there before.
C37_UnsubscribeNeverBinds ==
    [][op'.name = "leaving_page" =>
          /\ datarefidx' = datarefidx
          /\ Len(datarefs') <= Len(datarefs)
          /\ \A i \in 1..Len(datarefs') : \E j \in 1..Len(datarefs) : datarefs'[i] = datarefs[j]]_vars

-----------------------------------------------------------------------------
(* The task threads one by one: the reader at its loop test or in recvfrom, the
   supervisor between two iterations, and terminate on a handler thread, which
   the other threads interleave with between stop() and the end of disconnect() *)

\* main.py onShutdown on worker thread t
HandlerShutdown(t) ==
    /\ tpclient.connected /\ pc[t].at = "idle"
    /\ CommitAt(self, "shutdown", <<t, NoneStr>>,
                [pc EXCEPT ![t] = [Idle EXCEPT !.at = "terminate"]])

\* upd_enqueue: while not self.no_upd_enqueue.is_set(): if len(self.datarefs) > 0,
\* and self.no_upd_enqueue = None after the loop; is_set() of None raises
\* AttributeError, which ends the thread
ReaderTest(r) ==
    /\ pc[r].at = "loop"
    /\ no_upd_enqueue = "clear" => Len(datarefs) > 0
    /\ CASE no_upd_enqueue = "None" ->
              CommitAt(Raise(self, "AttributeError"), "upd_enqueue", r, [pc EXCEPT ![r] = Idle])
         [] no_upd_enqueue = "set" ->
              CommitAt([self EXCEPT !.no_upd_enqueue = "None"], "upd_enqueue", r, [pc EXCEPT ![r] = Idle])
         [] no_upd_enqueue = "clear" ->
              CommitAt(self, "upd_enqueue", r, [pc EXCEPT ![r].at = "recv"])

\* upd_enqueue: recvfrom returns or fails in the reader r that waited in it
ReaderRecv(r, packet) ==
    /\ pc[r].at = "recv"
    /\ LET s1 == upd_enqueue(self, packet)
       IN CommitAt(s1, "upd_enqueue", packet, Tasks([pc EXCEPT ![r].at = "loop"], s1))

NextTasks ==
    \/ OnConnect(SmallFile)
    \/ EnteringPage("b")
    \/ LeavingPage("b")
    \/ Supervisor(GoodBeacon)
    \/ \E r \in Readers : ReaderTest(r)
    \/ \E r \in Readers, packet \in {Timeout, OtherPacket} : ReaderRecv(r, packet)
    \/ HandlerShutdown("h1")
    \/ HandlerStep("h1")

SpecTasks == Init /\ [][NextTasks]_vars

\* C38: at any time at most one reader, one dispatcher and one supervisor thread
\* is alive
C38_OneTaskPerRole ==
    \A role \in {Readers, Dispatchers, Supervisors} :
       Cardinality({t \in role : pc[t].at # "idle"}) <= 1

-----------------------------------------------------------------------------
(* A handler thread that enters and leaves page a statement by statement, while
   the reader's receives fail: the reader declares the link lost between two
   statements of the handler *)

NextCut ==
    \/ OnConnect(SmallFile)
    \/ Supervisor(GoodBeacon)
    \/ ReaderTimeout
    \/ HandlerEnter("h1", "a")
    \/ HandlerLeave("h1", "a")
    \/ HandlerStep("h1")

SpecCut == Init /\ [][NextCut]_vars

\* C39: a datagram is sent only while beacon_data holds the address: the send of
\* _monitor_dataref, which follows the test of the connection by some statements,
\* does not fail on the missing IP or Port when the reader has cleared beacon_data
\* in between
C39_SendOnlyWithAddress ==
    op.name = "mon_act" => op.exc # "KeyError"

\* C40: entering_page and leaving_page called at the same time from two handler
\* threads leave what some order of the calls one after the other leaves: once
\* the handlers have returned, the count of every dataref is the number of the
\* pages in use that hold it
C40_AsSomeSequentialOrder ==
    (\A t \in Handlers : pc[t].at = "idle") =>
       \A i \in 1..Len(pages) : \A k \in 1..Len(pages[i][2]) :
          RefCount(pages[i][2][k]) = Cardinality(ActivePages(pages[i][2][k]))
====
